---- MODULE Spec2Model ----
(***************************************************************************)
(* Salesforce metadata generation scripts (scripts/ts).                    *)
(*                                                                         *)
(* Strings are sequences of lexemes: the object name "Property__c" is      *)
(* <<"Property", "__c">>, and an XML document is the sequence of its tags  *)
(* and text lexemes with the layout whitespace left out.  String           *)
(* operations (endsWith, concatenation, includes, the non-greedy regular   *)
(* expression capture) are computed on these sequences.                    *)
(*                                                                         *)
(* The repository holds several generations of the same library.  The      *)
(* variable "version" says which one a run has loaded; it never changes.   *)
(***************************************************************************)
EXTENDS Integers, Sequences, FiniteSets, TLC

VARIABLES
    version,      \* which generation of the library this process loaded
    objectDirs,   \* object folders that exist under the objects root
    fieldsDirs,   \* object folders whose nested "fields" folder exists
    objFiles,     \* <<folder, apiName>> -> content of <apiName>.object-meta.xml
    fieldFiles,   \* <<folder, fieldApiName>> -> content of the .field-meta.xml
    dataFiles,    \* targetObject -> records of <targetObject>-data.json
    rows,         \* the caller's record array (createRecords mutates it)
    reqWritten,   \* history: <<folder, fieldApiName>> last written with required: true
    calls,        \* number of library calls made so far
    call,         \* the last library call: its arguments and its outcome
    layouts,      \* layout file name -> content of the file in the layouts folder
    permFiles,    \* targetObject -> content of <targetObject>_Manager.permissionset-meta.xml
    permSeen,     \* history: targetObject -> the field files readdirSync returned
    pending,      \* the external commands exec has started and not yet completed
    reports,      \* history: what each completed command made the callback print
    apps,         \* application file name -> content of the file in the applications folder
    tabFiles,     \* apiName -> content of <apiName>.tab-meta.xml
    inflight,     \* process -> its addFieldToLayout call between readFileSync and writeFileSync
    log,          \* history: the console line each finished layout or application edit printed
    firstRun      \* history: the files as the first run of the script left them

vars == <<version, objectDirs, fieldsDirs, objFiles, fieldFiles, dataFiles,
          rows, reqWritten, calls, call, layouts, permFiles, permSeen, pending,
          reports, apps, tabFiles, inflight, log, firstRun>>

(* What the sequential library calls on objects, fields, records, layouts  *)
(* and permission sets never touch.                                         *)
editVars == <<apps, tabFiles, inflight, log, firstRun>>

(* What the object, field and record functions never touch. *)
otherVars == <<layouts, permFiles, permSeen, pending, reports, editVars>>

----------------------------------------------------------------------------
(* Bounds of the model *)

MaxCalls == 3
MaxFields == 2
MaxRows == 2

----------------------------------------------------------------------------
(* Library generations *)

CF1 == "createFields.ts:1-208"
CF2 == "createFields.ts:209-482"
CFL == "createFieldsNLayouts.ts"
P0A == "part_000:1-609"
P0B == "part_000:610-1090"

Versions == {CF1, CF2, CFL, P0A, P0B}

(* createFields.ts declares createObject with four parameters and         *)
(* createRecords with three: a nameFieldOptions argument is ignored there. *)
HasNameFieldOptions(v) == v \in {CFL, P0A, P0B}

(* part_000:610-1090 has no findFields and no createRecords. *)
HasCreateRecords(v) == v \in {CF1, CF2, CFL, P0A}

----------------------------------------------------------------------------
(* Strings *)

UNDEF == <<"\\undefined">>

(* No run of the script has ended yet. *)
NoRun == <<>>

Suffix == <<"__c">>

Truthy(s) == s # UNDEF /\ s # <<>>

(* `${s}` *)
Interp(s) == IF s = UNDEF THEN <<"undefined">> ELSE s

endsWith(s, suf) ==
    /\ Len(s) >= Len(suf)
    /\ SubSeq(s, Len(s) - Len(suf) + 1, Len(s)) = suf

(* s.includes(sub) *)
Includes(s, sub) ==
    \E i \in 0..(Len(s) - Len(sub)) : SubSeq(s, i + 1, i + Len(sub)) = sub

(* s.replace(/_/g, ' ') *)
ReplaceUnderscores(s) == [i \in 1..Len(s) |-> IF s[i] = "_" THEN " " ELSE s[i]]

(* s.match(/<open>(.*?)<\/close>/): the capture, or UNDEF without a match *)
Capture(s, open, close) ==
    LET starts == {i \in 1..Len(s) :
                      /\ s[i] = open
                      /\ \E j \in (i+1)..Len(s) : s[j] = close}
    IN IF starts = {} THEN UNDEF
       ELSE LET i == CHOOSE x \in starts : \A y \in starts : x <= y
                j == CHOOSE x \in (i+1)..Len(s) :
                        /\ s[x] = close
                        /\ \A y \in (i+1)..Len(s) : s[y] = close => x <= y
            IN SubSeq(s, i + 1, j - 1)

----------------------------------------------------------------------------
(* Name resolution *)

STANDARD_OBJECTS ==
    {<<"Account">>, <<"Contact">>, <<"Opportunity">>, <<"Lead">>, <<"Case">>}

getObjectDetails_alwaysSuffix(objectName) ==
    [apiName |-> objectName \o Suffix, folderName |-> objectName \o Suffix]

getObjectDetails_neverSuffix(objectName) ==
    [apiName |-> objectName, folderName |-> objectName]

getObjectDetails(objectName) ==
    LET isStandard == objectName \in STANDARD_OBJECTS
        hasSuffix == endsWith(objectName, Suffix)
    IN IF ~isStandard /\ ~hasSuffix
       THEN [apiName |-> objectName \o Suffix, folderName |-> objectName \o Suffix]
       ELSE [apiName |-> objectName, folderName |-> objectName]

(* createFields.ts:1-208 builds `${objectName}__c` inline in findFields,  *)
(* createRecords and createObject.                                         *)
legacyObjectNames(objectName) ==
    [apiName |-> objectName \o Suffix, folderName |-> objectName \o Suffix]

ObjectNames(v, objectName) ==
    IF v = CF1 THEN legacyObjectNames(objectName) ELSE getObjectDetails(objectName)

----------------------------------------------------------------------------
(* Documents *)

Element(open, body, close) == <<open>> \o body \o <<close>>

FullNameTag(n) == Element("<fullName>", n, "</fullName>")
LabelTag(l) == Element("<label>", l, "</label>")
TypeTag(t) == Element("<type>", <<t>>, "</type>")
RequiredTag(b) == Element("<required>", <<b>>, "</required>")

----------------------------------------------------------------------------
(* createObject *)

NoOptions ==
    [given |-> FALSE, type |-> "Text", label |-> UNDEF,
     displayFormat |-> UNDEF, startingNumber |-> UNDEF]

TextNameField(l) ==
    Element("<nameField>", LabelTag(l) \o TypeTag("Text"), "</nameField>")

AutoNumberNameField(o) ==
    Element("<nameField>",
            Element("<displayFormat>", Interp(o.displayFormat), "</displayFormat>")
            \o LabelTag(Interp(o.label))
            \o TypeTag("AutoNumber")
            \o Element("<startingNumber>",
                       IF Truthy(o.startingNumber) THEN o.startingNumber ELSE <<"1">>,
                       "</startingNumber>"),
            "</nameField>")

FeatureFlags ==
    Element("<enableSharing>", <<"true">>, "</enableSharing>")
    \o Element("<enableBulkApi>", <<"true">>, "</enableBulkApi>")
    \o Element("<enableStreamingApi>", <<"true">>, "</enableStreamingApi>")
    \o Element("<enableActivities>", <<"true">>, "</enableActivities>")
    \o Element("<enableReports>", <<"true">>, "</enableReports>")
    \o Element("<enableSearch>", <<"true">>, "</enableSearch>")

ObjectHeader(apiName, label, pluralLabel) ==
    FullNameTag(apiName)
    \o LabelTag(label)
    \o Element("<pluralLabel>", pluralLabel, "</pluralLabel>")
    \o Element("<deploymentStatus>", <<"Deployed">>, "</deploymentStatus>")
    \o Element("<sharingModel>", <<"ReadWrite">>, "</sharingModel>")

(* Does this generation check displayFormat before building the AutoNumber *)
(* name field?                                                             *)
ChecksDisplayFormat(v) == v \in {CFL, P0A}

(* The name-field fragment, or "threw" for the configuration error. *)
nameFieldXml(v, label, o) ==
    IF ~HasNameFieldOptions(v)
    THEN [threw |-> FALSE, xml |-> TextNameField(label \o <<" ", "Name">>)]
    ELSE IF ~o.given
    THEN [threw |-> FALSE, xml |-> TextNameField(label \o <<" ", "Name">>)]
    ELSE IF o.type = "AutoNumber"
    THEN IF ChecksDisplayFormat(v) /\ ~Truthy(o.displayFormat)
         THEN [threw |-> TRUE, xml |-> <<>>]
         ELSE [threw |-> FALSE, xml |-> AutoNumberNameField(o)]
    ELSE [threw |-> FALSE, xml |-> TextNameField(Interp(o.label))]

objectXml(v, apiName, label, pluralLabel, nameField) ==
    Element("<CustomObject>",
            ObjectHeader(apiName, label, pluralLabel)
            \o (IF HasNameFieldOptions(v) THEN FeatureFlags ELSE <<>>)
            \o nameField,
            "</CustomObject>")

EmptyCall ==
    [op |-> "none", target |-> <<>>, opts |-> NoOptions, fields |-> <<>>,
     status |-> "none", apiName |-> <<>>, folderName |-> <<>>, ret |-> <<>>,
     written |-> <<>>, failedAt |-> 0, rowsIn |-> <<>>, existed |-> FALSE,
     field |-> <<>>, child |-> <<>>, lookup |-> <<>>, before |-> <<>>,
     warned |-> {}]

CreateObject(objectName, label, pluralLabel, nameFieldOptions) ==
    LET names == ObjectNames(version, objectName)
        nf == nameFieldXml(version, label, nameFieldOptions)
        c == [EmptyCall EXCEPT !.op = "createObject", !.target = objectName,
                               !.opts = nameFieldOptions,
                               \* fs.existsSync(fieldsFolder)
                               !.existed = names.folderName \in fieldsDirs,
                               !.apiName = names.apiName,
                               !.folderName = names.folderName]
    IN /\ calls' = calls + 1
       \* mkdirSync(fieldsFolder, { recursive: true }) when it does not exist
       /\ objectDirs' = objectDirs \cup {names.folderName}
       /\ fieldsDirs' = fieldsDirs \cup {names.folderName}
       /\ IF nf.threw
          THEN /\ objFiles' = objFiles
               /\ call' = [c EXCEPT !.status = "threw"]
          ELSE /\ objFiles' =
                     (<<names.folderName, names.apiName>> :>
                         objectXml(version, names.apiName, label, pluralLabel, nf.xml))
                     @@ objFiles
               /\ call' = [c EXCEPT !.status = "returned", !.ret = names.folderName,
                                    !.written = <<names.apiName>>]
       /\ UNCHANGED <<version, fieldFiles, dataFiles, rows, reqWritten, otherVars>>

----------------------------------------------------------------------------
(* createFields *)

BasicTypes ==
    {"Text", "Number", "Currency", "Checkbox", "Date", "DateTime", "Email",
     "Percent", "Phone", "Url", "TextArea"}

(* The FieldType union each generation declares. *)
FieldType(v) ==
    CASE v \in {CF1, CF2} -> BasicTypes
      [] v = CFL -> BasicTypes \cup {"Lookup"}
      [] OTHER -> BasicTypes \cup {"Lookup", "Master-Detail"}

Precision(p, s) ==
    Element("<precision>", <<p>>, "</precision>") \o Element("<scale>", <<s>>, "</scale>")

RelationshipTags(field, label) ==
    Element("<referenceTo>", field.referenceTo, "</referenceTo>")
    \o Element("<relationshipLabel>",
               IF Truthy(field.relationshipLabel) THEN field.relationshipLabel ELSE label,
               "</relationshipLabel>")
    \o Element("<relationshipName>",
               IF Truthy(field.relationshipName) THEN field.relationshipName
               ELSE field.name,
               "</relationshipName>")

fieldLabel(v, field) ==
    IF v \in {CF1, CF2} THEN ReplaceUnderscores(field.name)
    ELSE IF Truthy(field.label) THEN field.label
    ELSE ReplaceUnderscores(field.name)

descriptionTag(v, field) ==
    IF v \in {CF1, CF2}
    THEN Element("<description>", Interp(field.description), "</description>")
    ELSE IF Truthy(field.description)
    THEN Element("<description>", field.description, "</description>")
    ELSE <<>>

isRequired_inverted(field) == IF field.required = "true" THEN "false" ELSE "true"

isRequired(field) == IF field.required = "true" THEN "true" ELSE "false"

requiredTag(v, field) ==
    IF v = P0B /\ field.type = "Master-Detail" THEN <<>>
    ELSE RequiredTag(isRequired(field))

(* Does the switch of this generation have a case for this relationship type? *)
HasCase(v, t) ==
    \/ t = "Lookup" /\ v \in {CFL, P0A, P0B}
    \/ t = "Master-Detail" /\ v \in {P0A, P0B}

missingReference_ignored(v, field) == FALSE

(* throw new Error(`Field ... missing 'referenceTo'.`) *)
missingReference(v, field) ==
    /\ HasCase(v, field.type)
    /\ ~Truthy(field.referenceTo)

extraTags_swapped(v, field) ==
    CASE field.type \in {"Currency", "Percent"} -> Precision("18", "0")
      [] field.type = "Number" -> Precision("18", "2")
      [] OTHER -> <<>>

extraTags(v, field) ==
    CASE field.type \in {"Currency", "Percent"} -> Precision("18", "2")
      [] field.type = "Number" -> Precision("18", "0")
      [] field.type \in {"Text", "Email", "Url", "Phone"} ->
            Element("<length>", <<"255">>, "</length>")
      [] HasCase(v, field.type) /\ field.type = "Lookup" ->
            Element("<deleteConstraint>", <<"SetNull">>, "</deleteConstraint>")
            \o RelationshipTags(field, fieldLabel(v, field))
      [] HasCase(v, field.type) /\ field.type = "Master-Detail" ->
            Element("<writeRequiresMasterRead>", <<"false">>, "</writeRequiresMasterRead>")
            \o Element("<reparentableMasterDetail>", <<"false">>,
                       "</reparentableMasterDetail>")
            \o RelationshipTags(field, fieldLabel(v, field))
      [] OTHER -> <<>>

xmlType(v, field) ==
    IF HasCase(v, field.type) /\ field.type = "Master-Detail" THEN "MasterDetail"
    ELSE field.type

fieldApiName(field) == field.name \o Suffix

fieldXml(v, field) ==
    Element("<CustomField>",
            FullNameTag(fieldApiName(field))
            \o LabelTag(fieldLabel(v, field))
            \o TypeTag(xmlType(v, field))
            \o descriptionTag(v, field)
            \o requiredTag(v, field)
            \o extraTags(v, field),
            "</CustomField>")

RECURSIVE writeFields_atomic(_, _, _, _, _, _)
writeFields_atomic(v, folder, fieldList, i, files, written) ==
    IF i > Len(fieldList)
    THEN [files |-> files, written |-> written, failedAt |-> 0]
    ELSE IF missingReference(v, fieldList[i])
    THEN [files |-> fieldFiles, written |-> <<>>, failedAt |-> i]
    ELSE writeFields_atomic(v, folder, fieldList, i + 1,
                            (<<folder, fieldApiName(fieldList[i])>> :>
                                fieldXml(v, fieldList[i])) @@ files,
                            Append(written, fieldApiName(fieldList[i])))

(* fieldList.forEach(...): the files after the loop, the API names written, *)
(* and the index of the field that threw (0: none).                         *)
RECURSIVE writeFields(_, _, _, _, _, _)
writeFields(v, folder, fieldList, i, files, written) ==
    IF i > Len(fieldList)
    THEN [files |-> files, written |-> written, failedAt |-> 0]
    ELSE IF missingReference(v, fieldList[i])
    THEN [files |-> files, written |-> written, failedAt |-> i]
    ELSE writeFields(v, folder, fieldList, i + 1,
                     (<<folder, fieldApiName(fieldList[i])>> :> fieldXml(v, fieldList[i]))
                        @@ files,
                     Append(written, fieldApiName(fieldList[i])))

(* The history variable: which field files were last written from a        *)
(* descriptor with required: true.                                          *)
RECURSIVE noteRequired(_, _, _, _)
noteRequired(folder, fieldList, n, req) ==
    IF n = 0 THEN req
    ELSE LET prev == noteRequired(folder, fieldList, n - 1, req)
             key == <<folder, fieldApiName(fieldList[n])>>
         IN IF fieldList[n].required = "true" THEN prev \cup {key} ELSE prev \ {key}

CreateFields(folder, fieldList) ==
    LET r == writeFields(version, folder, fieldList, 1, fieldFiles, <<>>)
    IN /\ calls' = calls + 1
       \* fieldsDir is the path createObject returned
       /\ folder \in fieldsDirs
       /\ \A i \in 1..Len(fieldList) : fieldList[i].type \in FieldType(version)
       /\ fieldFiles' = r.files
       /\ reqWritten' = noteRequired(folder, fieldList, Len(r.written), reqWritten)
       /\ call' = [EmptyCall EXCEPT !.op = "createFields", !.folderName = folder,
                                    !.fields = fieldList,
                                    !.status = IF r.failedAt = 0 THEN "returned"
                                               ELSE "threw",
                                    !.written = r.written,
                                    !.failedAt = r.failedAt]
       /\ UNCHANGED <<version, objectDirs, fieldsDirs, objFiles, dataFiles, rows, otherVars>>

----------------------------------------------------------------------------
(* findFields and createRecords *)

Null == [kind |-> "null", v |-> <<>>, type |-> <<>>, referenceId |-> 0]

Scalar(s) == [kind |-> "value", v |-> s, type |-> <<>>, referenceId |-> 0]

(* { type: apiName, referenceId: `ref${index}` } *)
Attributes(apiName, index) ==
    [kind |-> "attributes", v |-> <<>>, type |-> apiName, referenceId |-> index]

NameKey == <<"Name">>
AttributesKey == <<"attributes">>

findFields_all(v, targetObject) ==
    LET folderName == ObjectNames(v, targetObject).folderName
    IN {k[2] : k \in {f \in DOMAIN fieldFiles : f[1] = folderName}}

(* The names findFields returns (as a set: only membership is used). *)
findFields(v, targetObject) ==
    LET folderName == ObjectNames(v, targetObject).folderName
        files == {k \in DOMAIN fieldFiles : k[1] = folderName}
    IN IF folderName \notin fieldsDirs THEN {}
       ELSE {Capture(fieldFiles[k], "<fullName>", "</fullName>") :
                k \in {f \in files :
                          /\ Capture(fieldFiles[f], "<fullName>", "</fullName>") # UNDEF
                          /\ Includes(fieldFiles[f], RequiredTag("true"))}}

Without(record, key) == [k \in (DOMAIN record) \ {key} |-> record[k]]

dropName_keep(v, record, nameFieldOptions) == record

(* The row after the callback of recordList.map has mutated it. *)
dropName(v, record, nameFieldOptions) ==
    IF /\ HasNameFieldOptions(v)
       /\ nameFieldOptions.given
       /\ nameFieldOptions.type = "AutoNumber"
       /\ NameKey \in DOMAIN record
    THEN Without(record, NameKey)
    ELSE record

fillRequired_skip(record, requiredFieldNames) == record

fillRequired(record, requiredFieldNames) ==
    [k \in (DOMAIN record) \cup requiredFieldNames |->
        IF k \in DOMAIN record THEN record[k] ELSE Null]

mutateRecord(v, record, nameFieldOptions, requiredFieldNames) ==
    fillRequired(dropName(v, record, nameFieldOptions), requiredFieldNames)

warnings_none(v, recordList, nameFieldOptions, requiredFieldNames) == {}

(* The warning lines of one call: "Record i has a 'Name' value, but object *)
(* is AutoNumber" and "Record i missing 'f'", printed while the row is      *)
(* changed.                                                                 *)
warnings(v, recordList, nameFieldOptions, requiredFieldNames) ==
    UNION {
        (IF dropName(v, recordList[i], nameFieldOptions) # recordList[i]
         THEN {<<i, "has Name", NameKey>>} ELSE {})
        \cup {<<i, "missing", f>> :
                 f \in requiredFieldNames
                        \ DOMAIN dropName(v, recordList[i], nameFieldOptions)}
        : i \in 1..Len(recordList)}

(* { attributes: {...}, ...record }: a later key replaces an earlier one. *)
formatRecord(apiName, index, record) ==
    record @@ (AttributesKey :> Attributes(apiName, index))

callerRows_copied(recordList, mutated) == recordList

(* delete record['Name'] and record[reqField] = null act on the objects of  *)
(* the caller's array: the caller sees the changed rows.                    *)
callerRows(recordList, mutated) == mutated

CreateRecords(targetObject, recordList, nameFieldOptions) ==
    LET apiName == ObjectNames(version, targetObject).apiName
        requiredFieldNames == findFields(version, targetObject)
        mutated == [i \in 1..Len(recordList) |->
                       mutateRecord(version, recordList[i], nameFieldOptions,
                                    requiredFieldNames)]
        formattedRecords == [i \in 1..Len(recordList) |->
                                formatRecord(apiName, i - 1, mutated[i])]
    IN /\ calls' = calls + 1
       /\ HasCreateRecords(version)
       /\ rows' = callerRows(recordList, mutated)
       /\ dataFiles' = (targetObject :> formattedRecords) @@ dataFiles
       /\ call' = [EmptyCall EXCEPT !.op = "createRecords", !.target = targetObject,
                                    !.opts = nameFieldOptions,
                                    !.status = "returned",
                                    !.apiName = apiName,
                                    !.folderName =
                                        ObjectNames(version, targetObject).folderName,
                                    !.rowsIn = recordList,
                                    !.warned = warnings(version, recordList,
                                                        nameFieldOptions,
                                                        requiredFieldNames)]
       /\ UNCHANGED <<version, objectDirs, fieldsDirs, objFiles, fieldFiles, reqWritten,
                    otherVars>>

----------------------------------------------------------------------------
(* Layouts: createLayout, addFieldToLayout, addRelatedListToLayout *)

HasLayouts(v) == v \in {CFL, P0A, P0B}

(* Whitespace between a tag and its text (a hand-edited or reformatted file). *)
Blank == " "

(* The index of the first occurrence of sub in s, or 0. *)
indexOf(s, sub) ==
    LET hits == {i \in 1..(Len(s) - Len(sub) + 1) : SubSeq(s, i, i + Len(sub) - 1) = sub}
    IN IF hits = {} THEN 0 ELSE CHOOSE i \in hits : \A j \in hits : i <= j

(* s.replace(sub, by) with a string pattern: the first occurrence only. *)
replaceFirst(s, sub, by) ==
    LET i == indexOf(s, sub)
    IN IF i = 0 THEN s
       ELSE SubSeq(s, 1, i - 1) \o by \o SubSeq(s, i + Len(sub), Len(s))

LayoutSuffix == <<".layout-meta.xml">>

layoutFileName(layoutName) ==
    IF endsWith(layoutName, LayoutSuffix) THEN layoutName ELSE layoutName \o LayoutSuffix

layoutExists_always(file) == TRUE

(* fs.existsSync(layoutPath) *)
layoutExists(file) == file \in DOMAIN layouts

(* fs.readFileSync(layoutPath, 'utf8'): throws when there is no such file. *)
readLayout(file) ==
    IF file \in DOMAIN layouts THEN [threw |-> FALSE, content |-> layouts[file]]
    ELSE [threw |-> TRUE, content |-> <<>>]

LayoutItem(behavior, fieldName) ==
    <<"<layoutItems>", "<behavior>", behavior, "</behavior>", "<field>">>
    \o fieldName \o <<"</field>", "</layoutItems>">>

LayoutColumn(items) == <<"<layoutColumns>">> \o items \o <<"</layoutColumns>">>

SectionHead(customLabel, label) ==
    <<"<layoutSections>", "<customLabel>", customLabel, "</customLabel>",
      "<detailHeading>", "false", "</detailHeading>",
      "<editHeading>", "true", "</editHeading>",
      "<label>", label, "</label>">>

StyleTag(style) == <<"<style>", style, "</style>">>

SectionEnd == <<"</layoutSections>">>

(* The document createLayout writes. *)
layoutXml ==
    <<"<Layout>">>
    \o SectionHead("false", "Information")
    \o LayoutColumn(LayoutItem("Required", <<"Name">>))
    \o LayoutColumn(LayoutItem("Edit", <<"OwnerId">>))
    \o StyleTag("TwoColumnsTopToBottom") \o SectionEnd
    \o SectionHead("false", "System Information")
    \o LayoutColumn(LayoutItem("Readonly", <<"CreatedById">>))
    \o LayoutColumn(LayoutItem("Readonly", <<"LastModifiedById">>))
    \o StyleTag("TwoColumnsTopToBottom") \o SectionEnd
    \o SectionHead("true", "Custom Links")
    \o StyleTag("CustomLinks") \o SectionEnd
    \o <<"</Layout>">>

(* `${apiName}-${simpleName} Layout.layout-meta.xml` *)
createdLayoutName(targetObject) ==
    getObjectDetails(targetObject).apiName \o <<"-">>
    \o replaceFirst(targetObject, Suffix, <<>>) \o <<" Layout">> \o LayoutSuffix

CreateLayout(targetObject) ==
    /\ HasLayouts(version)
    /\ calls' = calls + 1
    /\ layouts' = (createdLayoutName(targetObject) :> layoutXml) @@ layouts
    /\ call' = [EmptyCall EXCEPT !.op = "createLayout", !.target = targetObject,
                                 !.status = "returned",
                                 !.apiName = getObjectDetails(targetObject).apiName]
    /\ UNCHANGED <<version, objectDirs, fieldsDirs, objFiles, fieldFiles, dataFiles,
                   rows, reqWritten, permFiles, permSeen, pending, reports, editVars>>

Blanks(n) == [i \in 1..n |-> Blank]

(* new RegExp(`<open>\\s*${text}\\s*<\\/close>`).test(content) *)
spacedElementTest(content, open, text, close) ==
    \E i \in 1..Len(content), j \in 1..Len(content) :
        /\ i < j
        /\ content[i] = open
        /\ content[j] = close
        /\ \E a \in 0..(j - i - 1), b \in 0..(j - i - 1) :
              SubSeq(content, i + 1, j - 1) = Blanks(a) \o text \o Blanks(b)

hasField_never(v, content, fieldName) == FALSE

(* The duplicate check of addFieldToLayout. *)
hasField(v, content, fieldName) ==
    IF v = P0B
    THEN spacedElementTest(content, "<field>", fieldName, "</field>")
    ELSE Includes(content, <<"<field>">> \o fieldName \o <<"</field>">>)

TwoColumnStyles == {"TwoColumnsTopToBottom", "TwoColumnsLeftToRight"}

twoColumnMatch_anySection(content) ==
    LET n == Len(content)
        starts == {s \in 1..n : content[s] = "<layoutSections>"}
        closes == {e \in 1..n : content[e] = "</layoutColumns>"}
        first(S) == CHOOSE x \in S : \A y \in S : x <= y
    IN IF starts = {} \/ closes = {} THEN [from |-> 0, to |-> 0]
       ELSE [from |-> first(starts), to |-> first(closes)]

(* content.match(twoColumnRegex): the first and last index of match[0], or *)
(* from = 0 without a match.  The match starts at the leftmost             *)
(* <layoutSections> from which the rest of the pattern can be found, and   *)
(* each non-greedy part stops at the first place the rest still matches.   *)
twoColumnMatch(content) ==
    LET n == Len(content)
        closes(c) == {e \in (c + 1)..n : content[e] = "</layoutColumns>"}
        columns(t) == {c \in (t + 3)..n :
                          content[c] = "<layoutColumns>" /\ closes(c) # {}}
        styles(s) == {t \in (s + 1)..(n - 2) :
                         /\ content[t] = "<style>"
                         /\ content[t + 1] \in TwoColumnStyles
                         /\ content[t + 2] = "</style>"
                         /\ columns(t) # {}}
        starts == {s \in 1..n : content[s] = "<layoutSections>" /\ styles(s) # {}}
        first(S) == CHOOSE x \in S : \A y \in S : x <= y
    IN IF starts = {} THEN [from |-> 0, to |-> 0]
       ELSE [from |-> first(starts),
             to |-> first(closes(first(columns(first(styles(first(starts)))))))]

newFieldXml(fieldName) == LayoutItem("Edit", fieldName)

(* The content addFieldToLayout writes when the pattern matches. *)
insertField(content, fieldName) ==
    LET m == twoColumnMatch(content)
        originalBlock == SubSeq(content, m.from, m.to)
        updatedBlock == replaceFirst(originalBlock, <<"</layoutColumns>">>,
                                     newFieldXml(fieldName) \o <<"</layoutColumns>">>)
    IN replaceFirst(content, originalBlock, updatedBlock)

AddFieldToLayout(layoutName, fieldName) ==
    LET file == layoutFileName(layoutName)
        found == layoutExists(file)
        read == readLayout(file)
        content == read.content
    IN /\ HasLayouts(version)
       /\ calls' = calls + 1
       /\ layouts' =
             IF /\ found
                /\ ~read.threw
                /\ ~hasField(version, content, fieldName)
                /\ twoColumnMatch(content).from # 0
             THEN (file :> insertField(content, fieldName)) @@ layouts
             ELSE layouts
       /\ call' = [EmptyCall EXCEPT !.op = "addFieldToLayout", !.target = layoutName,
                                    !.field = fieldName,
                                    !.status = IF found /\ read.threw THEN "threw"
                                               ELSE "returned",
                                    !.existed = found, !.before = content]
       /\ UNCHANGED <<version, objectDirs, fieldsDirs, objFiles, fieldFiles, dataFiles,
                      rows, reqWritten, permFiles, permSeen, pending, reports, editVars>>

(* addFieldToLayout run by several processes on one project folder: each    *)
(* call is its readFileSync step and, when it found a place for the field,  *)
(* its writeFileSync step; steps of other processes can come in between.    *)

(* The console line of each way out of addFieldToLayout. *)
NotFoundLine == "Warning: Layout not found."
AlreadyLine == "Field already on layout."
AddedLine == "Added to layout"
NoSectionLine == "Could not find a 2-column section"

(* The number of steps taken so far. *)
Clock == calls + Len(log)

(* Does the call reach writeFileSync? *)
fieldWrites(v, found, content, fieldName) ==
    /\ found
    /\ ~hasField(v, content, fieldName)
    /\ twoColumnMatch(content).from # 0

AddFieldRead(p, layoutName, fieldName) ==
    LET file == layoutFileName(layoutName)
        found == layoutExists(file)
        content == readLayout(file).content
        entry == [pid |-> p, file |-> file, field |-> fieldName, content |-> content,
                  readAt |-> Clock + 1, wroteAt |-> 0, line |-> ""]
    IN /\ HasLayouts(version)
       /\ p \notin DOMAIN inflight
       /\ calls' = calls + 1
       /\ IF fieldWrites(version, found, content, fieldName)
          THEN /\ inflight' = (p :> [entry EXCEPT !.content = insertField(content, fieldName)])
                              @@ inflight
               /\ log' = log
          ELSE /\ inflight' = inflight
               /\ log' = Append(log, [entry EXCEPT !.line =
                                         IF ~found THEN NotFoundLine
                                         ELSE IF hasField(version, content, fieldName)
                                         THEN AlreadyLine
                                         ELSE NoSectionLine])
       /\ UNCHANGED <<version, objectDirs, fieldsDirs, objFiles, fieldFiles, dataFiles,
                      rows, reqWritten, call, layouts, permFiles, permSeen, pending,
                      reports, apps, tabFiles, firstRun>>

AddFieldWrite_rereads(p) ==
    /\ p \in DOMAIN inflight
    /\ layouts' = (inflight[p].file :>
                      insertField(layouts[inflight[p].file], inflight[p].field))
                  @@ layouts
    /\ inflight' = [q \in (DOMAIN inflight) \ {p} |-> inflight[q]]
    /\ log' = Append(log, [inflight[p] EXCEPT !.wroteAt = Clock + 1, !.line = AddedLine])
    /\ UNCHANGED <<version, objectDirs, fieldsDirs, objFiles, fieldFiles, dataFiles,
                   rows, reqWritten, calls, call, permFiles, permSeen, pending,
                   reports, apps, tabFiles, firstRun>>

(* fs.writeFileSync(layoutPath, content) with the content the call built    *)
(* from what it read.                                                       *)
AddFieldWrite(p) ==
    /\ p \in DOMAIN inflight
    /\ layouts' = (inflight[p].file :> inflight[p].content) @@ layouts
    /\ inflight' = [q \in (DOMAIN inflight) \ {p} |-> inflight[q]]
    /\ log' = Append(log, [inflight[p] EXCEPT !.wroteAt = Clock + 1, !.line = AddedLine])
    /\ UNCHANGED <<version, objectDirs, fieldsDirs, objFiles, fieldFiles, dataFiles,
                   rows, reqWritten, calls, call, permFiles, permSeen, pending,
                   reports, apps, tabFiles, firstRun>>

relatedListId(childObject, lookupField) == childObject \o <<".">> \o lookupField

relatedListXml_noColumn(id) ==
    <<"<relatedLists>", "<relatedList>">> \o id \o <<"</relatedList>", "</relatedLists>">>

relatedListXml(id) ==
    <<"<relatedLists>", "<fields>", "NAME", "</fields>", "<relatedList>">>
    \o id \o <<"</relatedList>", "</relatedLists>">>

hasRelatedList_never(v, content, id) == FALSE

(* The duplicate check of addRelatedListToLayout. *)
hasRelatedList(v, content, id) ==
    IF v = P0B
    THEN spacedElementTest(content, "<relatedList>", id, "</relatedList>")
    ELSE Includes(content, <<"<relatedList>">> \o id \o <<"</relatedList>">>)

AddRelatedListToLayout(layoutName, childObject, lookupField) ==
    LET file == layoutFileName(layoutName)
        found == layoutExists(file)
        read == readLayout(file)
        content == read.content
        id == relatedListId(childObject, lookupField)
    IN /\ HasLayouts(version)
       /\ calls' = calls + 1
       /\ layouts' =
             IF found /\ ~read.threw /\ ~hasRelatedList(version, content, id)
             THEN (file :> replaceFirst(content, <<"</Layout>">>,
                                        relatedListXml(id) \o <<"</Layout>">>))
                  @@ layouts
             ELSE layouts
       /\ call' = [EmptyCall EXCEPT !.op = "addRelatedListToLayout",
                                    !.target = layoutName, !.child = childObject,
                                    !.lookup = lookupField,
                                    !.status = IF found /\ read.threw THEN "threw"
                                               ELSE "returned",
                                    !.existed = found, !.before = content]
       /\ UNCHANGED <<version, objectDirs, fieldsDirs, objFiles, fieldFiles, dataFiles,
                      rows, reqWritten, permFiles, permSeen, pending, reports, editVars>>

----------------------------------------------------------------------------
(* Tabs and applications: createTab, addTabToApp *)

(* A line break inside a document ("." of a regular expression stops at it). *)
Newline == "\n"

tabXml(iconStyle) ==
    <<"<CustomTab>", "<customObject>", "true", "</customObject>", "<motif>">>
    \o iconStyle
    \o <<"</motif>", "<description>", "Created via automation script", "</description>",
         "</CustomTab>">>

CreateTab(targetObject, iconStyle) ==
    LET apiName == getObjectDetails(targetObject).apiName
    IN /\ HasLayouts(version)
       /\ calls' = calls + 1
       /\ tabFiles' = (apiName :> tabXml(iconStyle)) @@ tabFiles
       /\ call' = [EmptyCall EXCEPT !.op = "createTab", !.target = targetObject,
                                    !.status = "returned", !.apiName = apiName]
       /\ UNCHANGED <<version, objectDirs, fieldsDirs, objFiles, fieldFiles, dataFiles,
                      rows, reqWritten, layouts, permFiles, permSeen, pending, reports,
                      apps, inflight, log, firstRun>>

AppSuffix == <<".app-meta.xml">>

appFileName(targetApp) ==
    IF endsWith(targetApp, AppSuffix) THEN targetApp ELSE targetApp \o AppSuffix

appExists_always(file) == TRUE

(* fs.existsSync(appPath) *)
appExists(file) == file \in DOMAIN apps

(* fs.readFileSync(appPath, 'utf8'): throws when there is no such file. *)
readApp(file) ==
    IF file \in DOMAIN apps THEN [threw |-> FALSE, content |-> apps[file]]
    ELSE [threw |-> TRUE, content |-> <<>>]

tabTag(apiName) == <<"<tabs>">> \o apiName \o <<"</tabs>">>

hasTab_never(content, apiName) == FALSE

(* content.includes(tabTag) *)
hasTab(content, apiName) == Includes(content, tabTag(apiName))

(* content.replace(lastTabRegex, ...): the index where the match of         *)
(* /(<tabs>.*?<\/tabs>)(?![\s\S]*<tabs>)/ ends, or 0 without a match.  The  *)
(* match starts at the leftmost <tabs> from which a </tabs> with no <tabs>  *)
(* after it can be reached without crossing a line break.                   *)
lastTabMatch(content) ==
    LET n == Len(content)
        ends(s) == {e \in (s + 1)..n :
                       /\ content[e] = "</tabs>"
                       /\ \A k \in (s + 1)..(e - 1) : content[k] # Newline
                       /\ \A k \in (e + 1)..n : content[k] # "<tabs>"}
        starts == {s \in 1..n : content[s] = "<tabs>" /\ ends(s) # {}}
        first(S) == CHOOSE x \in S : \A y \in S : x <= y
    IN IF starts = {} THEN 0 ELSE first(ends(first(starts)))

(* The content addTabToApp writes. *)
insertTab(content, apiName) ==
    IF Includes(content, <<"</tabs>">>)
    THEN LET e == lastTabMatch(content)
         IN IF e = 0 THEN content
            ELSE SubSeq(content, 1, e) \o <<Newline>> \o tabTag(apiName)
                 \o SubSeq(content, e + 1, Len(content))
    ELSE replaceFirst(content, <<"</CustomApplication>">>,
                      tabTag(apiName) \o <<Newline, "</CustomApplication>">>)

AddTabToApp(targetApp, targetObject) ==
    LET apiName == getObjectDetails(targetObject).apiName
        file == appFileName(targetApp)
        found == appExists(file)
        read == readApp(file)
        content == read.content
        present == hasTab(content, apiName)
    IN /\ HasLayouts(version)
       /\ calls' = calls + 1
       /\ apps' = IF found /\ ~read.threw /\ ~present
                  THEN (file :> insertTab(content, apiName)) @@ apps
                  ELSE apps
       /\ call' = [EmptyCall EXCEPT !.op = "addTabToApp", !.target = targetApp,
                                    !.status = IF found /\ read.threw THEN "threw"
                                               ELSE "returned",
                                    !.apiName = apiName,
                                    !.existed = found, !.before = content,
                                    !.ret = IF ~found THEN <<"not found">>
                                            ELSE IF present THEN <<"already in app">>
                                            ELSE <<"added">>]
       /\ UNCHANGED <<version, objectDirs, fieldsDirs, objFiles, fieldFiles, dataFiles,
                      rows, reqWritten, layouts, permFiles, permSeen, pending, reports,
                      tabFiles, inflight, log, firstRun>>

----------------------------------------------------------------------------

(* createPermissionSet *)

getApiName_noList(objectName) ==
    IF ~endsWith(objectName, Suffix) THEN objectName \o Suffix ELSE objectName

(* The function declares its own list of standard objects. *)
getApiName(objectName) ==
    LET standardObjects ==
            {<<"Account">>, <<"Contact">>, <<"Opportunity">>, <<"Lead">>, <<"Case">>}
        isStandard == objectName \in standardObjects
        hasSuffix == endsWith(objectName, Suffix)
    IN IF ~isStandard /\ ~hasSuffix THEN objectName \o Suffix ELSE objectName

FieldFileSuffix == <<".field-meta.xml">>

(* fs.readdirSync(fieldsFolder): the names of the files in the folder. *)
readdirFields(folder) ==
    {k[2] \o FieldFileSuffix : k \in {f \in DOMAIN fieldFiles : f[1] = folder}}

fieldPermission(apiName, fieldName) ==
    <<"<fieldPermissions>", "<editable>", "true", "</editable>", "<field>">>
    \o apiName \o <<".">> \o fieldName
    \o <<"</field>", "<readable>", "true", "</readable>", "</fieldPermissions>">>

permissionsOf_none(apiName, files) == <<>>

(* files.forEach(file => fieldPermissions += ...) *)
RECURSIVE permissionsOf(_, _)
permissionsOf(apiName, files) ==
    IF files = {} THEN <<>>
    ELSE LET file == CHOOSE f \in files : TRUE
         IN fieldPermission(apiName, replaceFirst(file, FieldFileSuffix, <<>>))
            \o permissionsOf(apiName, files \ {file})

permissionSetXml(targetObject, apiName, fieldPermissions) ==
    <<"<PermissionSet>", "<label>">> \o targetObject \o <<" Manager", "</label>",
      "<hasActivationRequired>", "false", "</hasActivationRequired>",
      "<objectPermissions>",
      "<allowCreate>", "true", "</allowCreate>",
      "<allowDelete>", "true", "</allowDelete>",
      "<allowEdit>", "true", "</allowEdit>",
      "<allowRead>", "true", "</allowRead>",
      "<modifyAllRecords>", "true", "</modifyAllRecords>",
      "<object>">> \o apiName \o <<"</object>",
      "<viewAllRecords>", "true", "</viewAllRecords>",
      "</objectPermissions>">>
    \o fieldPermissions
    \o <<"<tabSettings>", "<tab>">> \o apiName
    \o <<"</tab>", "<visibility>", "Visible", "</visibility>", "</tabSettings>",
         "</PermissionSet>">>

CreatePermissionSet(targetObject) ==
    LET apiName == getApiName(targetObject)
        \* if (fs.existsSync(fieldsFolder))
        files == IF apiName \in fieldsDirs THEN readdirFields(apiName) ELSE {}
    IN /\ calls' = calls + 1
       /\ permFiles' =
             (targetObject :>
                 permissionSetXml(targetObject, apiName, permissionsOf(apiName, files)))
             @@ permFiles
       /\ permSeen' = (targetObject :> files) @@ permSeen
       /\ call' = [EmptyCall EXCEPT !.op = "createPermissionSet",
                                    !.target = targetObject, !.status = "returned",
                                    !.apiName = apiName, !.folderName = apiName,
                                    !.existed = apiName \in fieldsDirs]
       /\ UNCHANGED <<version, objectDirs, fieldsDirs, objFiles, fieldFiles, dataFiles,
                      rows, reqWritten, layouts, pending, reports, editVars>>

----------------------------------------------------------------------------
(* assignPermissionSet *)

(* `sf org assign permset --name ${permSetName} --target-org ${targetOrg}` *)
command(permSetName, targetOrg) ==
    <<"sf org assign permset --name ">> \o permSetName
    \o <<" --target-org ">> \o targetOrg

(* exec(command, callback): the command is started and the call returns. *)
AssignPermissionSet(permSetName, targetOrg) ==
    /\ calls' = calls + 1
    /\ pending' = pending \cup {[id |-> calls + 1, name |-> permSetName,
                                 command |-> command(permSetName, targetOrg)]}
    /\ call' = [EmptyCall EXCEPT !.op = "assignPermissionSet", !.target = permSetName,
                                 !.status = "returned"]
    /\ UNCHANGED <<version, objectDirs, fieldsDirs, objFiles, fieldFiles, dataFiles,
                   rows, reqWritten, layouts, permFiles, permSeen, reports, editVars>>

(* What the callback prints: (error, stdout, stderr) => { ... } *)
callbackPrints(error, stdout) ==
    IF error THEN <<"Error assigning permission.", "(Make sure you have run 'npm run deploy' first!)", "stderr">>
    ELSE IF stdout # <<>> THEN <<"Success!">>
    ELSE <<>>

(* The external command ends and node calls the callback with its result:  *)
(* error is set when the command failed, stdout is what it printed.        *)
ExecCallback(cmd, error, stdout) ==
    /\ cmd \in pending
    /\ pending' = pending \ {cmd}
    /\ reports' = Append(reports, [id |-> cmd.id, name |-> cmd.name, error |-> error,
                                   stdout |-> stdout,
                                   printed |-> callbackPrints(error, stdout)])
    /\ UNCHANGED <<version, objectDirs, fieldsDirs, objFiles, fieldFiles, dataFiles,
                   rows, reqWritten, calls, call, layouts, permFiles, permSeen, editVars>>

----------------------------------------------------------------------------
(* Inputs *)

RawNames == {<<"Account">>, <<"Property">>, <<"Property", "__c">>}

Labels == {<<"Property">>}
PluralLabels == {<<"Properties">>}

TextOptions ==
    [given |-> TRUE, type |-> "Text", label |-> <<"Property Name">>,
     displayFormat |-> UNDEF, startingNumber |-> UNDEF]

AutoNumberOptions ==
    {[given |-> TRUE, type |-> "AutoNumber", label |-> <<"Property Name">>,
      displayFormat |-> f, startingNumber |-> n] :
        f \in {UNDEF, <<>>, <<"PROP-{0000}">>}, n \in {UNDEF, <<"5">>}}

ValidAutoNumber ==
    [given |-> TRUE, type |-> "AutoNumber", label |-> <<"Property Name">>,
     displayFormat |-> <<"PROP-{0000}">>, startingNumber |-> UNDEF]

NameFieldOptionsSet == {NoOptions, TextOptions} \cup AutoNumberOptions

FieldNames == {<<"Price">>, <<"Close", "_", "Date">>}

AllTypes == BasicTypes \cup {"Lookup", "Master-Detail"}

OptionalText(x) == {UNDEF, x}

(* Every descriptor: each optional property given or left out. *)
FieldDefinitions ==
    [name : FieldNames,
     label : OptionalText(<<"Listing Price">>),
     type : AllTypes,
     description : OptionalText(<<"text">>),
     required : {"true", "false", "undefined"},
     referenceTo : OptionalText(<<"Contact">>),
     relationshipLabel : OptionalText(<<"Favorites">>),
     relationshipName : OptionalText(<<"Favs">>)]

Field(n, t, req, ref) ==
    [name |-> n, label |-> UNDEF, type |-> t, description |-> <<"text">>,
     required |-> req, referenceTo |-> ref,
     relationshipLabel |-> UNDEF, relationshipName |-> UNDEF]

(* The descriptors of the object / fields / records flow. *)
FlowFields ==
    {Field(<<"Price">>, "Currency", "true", UNDEF),
     Field(<<"Price">>, "Currency", "undefined", UNDEF),
     Field(<<"Close", "_", "Date">>, "Date", "true", UNDEF),
     Field(<<"Price">>, "Lookup", "true", UNDEF),
     Field(<<"Close", "_", "Date">>, "Master-Detail", "true", <<"Contact">>)}

SeqsUpTo(S, n) == UNION {[1..k -> S] : k \in 0..n}

RowKeys == {NameKey, <<"Price">> \o Suffix}

Rows == UNION {[K -> {Scalar(<<"x">>)}] : K \in SUBSET RowKeys}

Running == call.status # "threw"

Init ==
    /\ version \in Versions
    /\ objectDirs = {}
    /\ fieldsDirs = {}
    /\ objFiles = <<>>
    /\ fieldFiles = <<>>
    /\ dataFiles = <<>>
    /\ rows = <<>>
    /\ reqWritten = {}
    /\ calls = 0
    /\ call = EmptyCall
    /\ layouts = <<>>
    /\ permFiles = <<>>
    /\ permSeen = <<>>
    /\ pending = {}
    /\ reports = <<>>
    /\ apps = <<>>
    /\ tabFiles = <<>>
    /\ inflight = <<>>
    /\ log = <<>>
    /\ firstRun = NoRun

----------------------------------------------------------------------------
(* The object / fields / records flow of the scripts: createObject, then   *)
(* createFields on the path it returned, then createRecords.  An uncaught  *)
(* error ends the process.                                                 *)

FlowObject ==
    /\ call.op = "none"
    /\ \E n \in RawNames, l \in Labels, pl \in PluralLabels,
          o \in {NoOptions, ValidAutoNumber} :
          CreateObject(n, l, pl, o)

FlowFieldsStep ==
    /\ call.op = "createObject"
    /\ Running
    /\ \E fl \in SeqsUpTo(FlowFields, MaxFields) : CreateFields(call.ret, fl)

FlowRecords ==
    /\ call.op # "createRecords"
    /\ Running
    /\ \E n \in RawNames, rl \in SeqsUpTo(Rows, MaxRows),
          o \in {NoOptions, ValidAutoNumber} :
          CreateRecords(n, rl, o)

Next == FlowObject \/ FlowFieldsStep \/ FlowRecords

Spec == Init /\ [][Next]_vars

----------------------------------------------------------------------------
(* Repeated createObject calls of one process *)

(* The object folder may be there already, without its fields folder (a    *)
(* project retrieved from the org).                                        *)
InitObjects ==
    /\ version \in Versions
    /\ objectDirs \in {{}, {<<"Property", "__c">>}}
    /\ fieldsDirs = {}
    /\ objFiles = <<>>
    /\ fieldFiles = <<>>
    /\ dataFiles = <<>>
    /\ rows = <<>>
    /\ reqWritten = {}
    /\ calls = 0
    /\ call = EmptyCall
    /\ layouts = <<>>
    /\ permFiles = <<>>
    /\ permSeen = <<>>
    /\ pending = {}
    /\ reports = <<>>
    /\ apps = <<>>
    /\ tabFiles = <<>>
    /\ inflight = <<>>
    /\ log = <<>>
    /\ firstRun = NoRun

NextObjects ==
    /\ calls < MaxCalls
    /\ Running
    /\ \E n \in RawNames, l \in Labels, pl \in PluralLabels, o \in NameFieldOptionsSet :
          CreateObject(n, l, pl, o)

SpecObjects == InitObjects /\ [][NextObjects]_vars

----------------------------------------------------------------------------
(* Compiling one descriptor, alone or after a plain field *)

PlainField == Field(<<"Address">>, "Text", "undefined", UNDEF)

CompileLists ==
    {<<d>> : d \in FieldDefinitions} \cup {<<PlainField, d>> : d \in FieldDefinitions}

FieldsObject ==
    /\ call.op = "none"
    /\ CreateObject(<<"Property">>, <<"Property">>, <<"Properties">>, NoOptions)

FieldsCompile ==
    /\ call.op = "createObject"
    /\ \E fl \in CompileLists : CreateFields(call.ret, fl)

NextFields == FieldsObject \/ FieldsCompile

SpecFields == Init /\ [][NextFields]_vars

----------------------------------------------------------------------------
(* Layout edits of one process: createLayout, addFieldToLayout and          *)
(* addRelatedListToLayout in any order, on generated and retrieved layouts. *)

ContactLayout == <<"Contact", "-", "Contact", " Layout">>

OfferLayout == <<"Offer", "__c", "-", "Offer", " Layout">>

(* Layouts retrieved from the org (sf project retrieve) or edited by hand. *)
(* A one-column section comes first. *)
OneColumnFirst ==
    <<"<Layout>">>
    \o SectionHead("false", "Description")
    \o LayoutColumn(LayoutItem("Edit", <<"Description">>))
    \o StyleTag("OneColumn") \o SectionEnd
    \o SectionHead("false", "Information")
    \o LayoutColumn(LayoutItem("Required", <<"Name">>))
    \o LayoutColumn(LayoutItem("Edit", <<"OwnerId">>))
    \o StyleTag("TwoColumnsLeftToRight") \o SectionEnd
    \o SectionHead("false", "Notes")
    \o LayoutColumn(LayoutItem("Edit", <<"Notes">>))
    \o StyleTag("OneColumn") \o SectionEnd
    \o <<"</Layout>">>

(* The only section with columns is the two-column one. *)
SingleTwoColumn ==
    <<"<Layout>">>
    \o SectionHead("false", "Information")
    \o LayoutColumn(LayoutItem("Required", <<"Name">>))
    \o LayoutColumn(LayoutItem("Edit", <<"OwnerId">>))
    \o StyleTag("TwoColumnsTopToBottom") \o SectionEnd
    \o SectionHead("true", "Custom Links")
    \o StyleTag("CustomLinks") \o SectionEnd
    \o <<"</Layout>">>

(* The style is written before the columns, and a field has blanks around it. *)
StyleFirst ==
    <<"<Layout>">>
    \o SectionHead("true", "Custom Links")
    \o StyleTag("CustomLinks") \o SectionEnd
    \o SectionHead("false", "Information")
    \o StyleTag("TwoColumnsTopToBottom")
    \o LayoutColumn(LayoutItem("Required", <<"Name">>))
    \o LayoutColumn(LayoutItem("Edit", <<Blank, "Price", "__c", Blank>>))
    \o SectionEnd
    \o <<"</Layout>">>

NoTwoColumn ==
    <<"<Layout>">>
    \o SectionHead("false", "Description")
    \o LayoutColumn(LayoutItem("Edit", <<"Description">>))
    \o StyleTag("OneColumn") \o SectionEnd
    \o <<"</Layout>">>

RetrievedLayouts == {OneColumnFirst, SingleTwoColumn, StyleFirst, NoTwoColumn}

LayoutNames == {ContactLayout, OfferLayout, OfferLayout \o LayoutSuffix}

LayoutFields == {<<"Price", "__c">>, <<"OwnerId">>}

ChildObjects == {<<"Favorite", "__c">>}

LookupFields == {<<"Contact", "__c">>}

InitLayouts ==
    /\ version \in {v \in Versions : HasLayouts(v)}
    /\ objectDirs = {}
    /\ fieldsDirs = {}
    /\ objFiles = <<>>
    /\ fieldFiles = <<>>
    /\ dataFiles = <<>>
    /\ rows = <<>>
    /\ reqWritten = {}
    /\ calls = 0
    /\ call = EmptyCall
    /\ layouts \in {<<>>} \cup
                   {layoutFileName(ContactLayout) :> d : d \in RetrievedLayouts}
    /\ permFiles = <<>>
    /\ permSeen = <<>>
    /\ pending = {}
    /\ reports = <<>>
    /\ apps = <<>>
    /\ tabFiles = <<>>
    /\ inflight = <<>>
    /\ log = <<>>
    /\ firstRun = NoRun

LayoutCreate ==
    /\ calls < MaxCalls
    /\ Running
    /\ CreateLayout(<<"Offer">>)

LayoutAddField ==
    /\ calls < MaxCalls
    /\ Running
    /\ \E ln \in LayoutNames, f \in LayoutFields : AddFieldToLayout(ln, f)

LayoutAddRelatedList ==
    /\ calls < MaxCalls
    /\ Running
    /\ \E ln \in LayoutNames, c \in ChildObjects, l \in LookupFields :
          AddRelatedListToLayout(ln, c, l)

NextLayouts == LayoutCreate \/ LayoutAddField \/ LayoutAddRelatedList

SpecLayouts == InitLayouts /\ [][NextLayouts]_vars

----------------------------------------------------------------------------
(* Related lists: addRelatedListToLayout for two child objects, in any      *)
(* order, on generated and retrieved layouts.                               *)

(* A retrieved layout that already lists Favorite__c.Contact__c, written    *)
(* with blanks around the identifier.                                       *)
PaddedRelatedList ==
    <<"<Layout>">>
    \o SectionHead("false", "Information")
    \o LayoutColumn(LayoutItem("Required", <<"Name">>))
    \o LayoutColumn(LayoutItem("Edit", <<"OwnerId">>))
    \o StyleTag("TwoColumnsTopToBottom") \o SectionEnd
    \o <<"<relatedLists>", "<fields>", "NAME", "</fields>", "<relatedList>",
         Blank, "Favorite", "__c", ".", "Contact", "__c", Blank,
         "</relatedList>", "</relatedLists>">>
    \o <<"</Layout>">>

RelatedListLayouts == {OneColumnFirst, NoTwoColumn, PaddedRelatedList}

RelatedListChildren == {<<"Favorite", "__c">>, <<"Offer", "__c">>}

InitRelatedLists ==
    /\ version \in {v \in Versions : HasLayouts(v)}
    /\ objectDirs = {}
    /\ fieldsDirs = {}
    /\ objFiles = <<>>
    /\ fieldFiles = <<>>
    /\ dataFiles = <<>>
    /\ rows = <<>>
    /\ reqWritten = {}
    /\ calls = 0
    /\ call = EmptyCall
    /\ layouts \in {<<>>} \cup
                   {layoutFileName(ContactLayout) :> d : d \in RelatedListLayouts}
    /\ permFiles = <<>>
    /\ permSeen = <<>>
    /\ pending = {}
    /\ reports = <<>>
    /\ apps = <<>>
    /\ tabFiles = <<>>
    /\ inflight = <<>>
    /\ log = <<>>
    /\ firstRun = NoRun

RelatedListsCreate ==
    /\ calls < MaxCalls
    /\ CreateLayout(<<"Offer">>)

RelatedListsAdd ==
    /\ calls < MaxCalls
    /\ \E ln \in LayoutNames, c \in RelatedListChildren, l \in LookupFields :
          AddRelatedListToLayout(ln, c, l)

NextRelatedLists == RelatedListsCreate \/ RelatedListsAdd

SpecRelatedLists == InitRelatedLists /\ [][NextRelatedLists]_vars

----------------------------------------------------------------------------

(* Field batches with a descriptor that raises: createObject, then          *)
(* createFields calls on a folder that may hold a field file of an earlier  *)
(* run.                                                                     *)

BatchFields ==
    {Field(<<"Address">>, "Text", "undefined", UNDEF),
     Field(<<"Price">>, "Lookup", "undefined", UNDEF),
     Field(<<"Close", "_", "Date">>, "Date", "undefined", UNDEF)}

(* Price__c.field-meta.xml as an earlier run wrote it. *)
EarlierPriceKey == <<<<"Property", "__c">>, <<"Price", "__c">>>>

EarlierPrice == Field(<<"Price">>, "Currency", "undefined", UNDEF)

InitBatch ==
    /\ version \in Versions
    /\ \/ /\ objectDirs = {}
          /\ fieldsDirs = {}
          /\ fieldFiles = <<>>
       \/ /\ objectDirs = {<<"Property", "__c">>}
          /\ fieldsDirs = {<<"Property", "__c">>}
          /\ fieldFiles = (EarlierPriceKey :> fieldXml(version, EarlierPrice))
    /\ objFiles = <<>>
    /\ dataFiles = <<>>
    /\ rows = <<>>
    /\ reqWritten = {}
    /\ calls = 0
    /\ call = EmptyCall
    /\ layouts = <<>>
    /\ permFiles = <<>>
    /\ permSeen = <<>>
    /\ pending = {}
    /\ reports = <<>>
    /\ apps = <<>>
    /\ tabFiles = <<>>
    /\ inflight = <<>>
    /\ log = <<>>
    /\ firstRun = NoRun

BatchObject ==
    /\ call.op = "none"
    /\ CreateObject(<<"Property">>, <<"Property">>, <<"Properties">>, NoOptions)

BatchCreate ==
    /\ call.op # "none"
    /\ calls < MaxCalls
    /\ Running
    /\ \E fl \in SeqsUpTo(BatchFields, MaxFields + 1) :
          CreateFields(<<"Property", "__c">>, fl)

NextBatch == BatchObject \/ BatchCreate

SpecBatch == InitBatch /\ [][NextBatch]_vars

----------------------------------------------------------------------------

(* Two processes editing one layout: addFieldToLayout calls whose read and  *)
(* write steps interleave in every way.                                     *)

Processes == {"first", "second"}

RaceFields == {<<"Price", "__c">>, <<"Rating", "__c">>}

RaceLayouts == {layoutXml, StyleFirst}

InitRace ==
    /\ version \in {v \in Versions : HasLayouts(v)}
    /\ objectDirs = {}
    /\ fieldsDirs = {}
    /\ objFiles = <<>>
    /\ fieldFiles = <<>>
    /\ dataFiles = <<>>
    /\ rows = <<>>
    /\ reqWritten = {}
    /\ calls = 0
    /\ call = EmptyCall
    /\ layouts \in {layoutFileName(ContactLayout) :> d : d \in RaceLayouts}
    /\ permFiles = <<>>
    /\ permSeen = <<>>
    /\ pending = {}
    /\ reports = <<>>
    /\ apps = <<>>
    /\ tabFiles = <<>>
    /\ inflight = <<>>
    /\ log = <<>>
    /\ firstRun = NoRun

RaceRead ==
    /\ calls < MaxCalls
    /\ \E p \in Processes, f \in RaceFields : AddFieldRead(p, ContactLayout, f)

RaceWrite == \E p \in DOMAIN inflight : AddFieldWrite(p)

NextRace == RaceRead \/ RaceWrite

SpecRace == InitRace /\ [][NextRace]_vars

----------------------------------------------------------------------------

(* Application edits: createTab and addTabToApp calls in any order, on      *)
(* application files as retrieved from the org or edited by hand.           *)

SalesApp == <<"standard", "__", "Sales">>

AppHead == <<"<CustomApplication>", Newline, "<label>", "Sales", "</label>", Newline>>

AccountTab == <<"<tabs>", "standard-Account", "</tabs>", Newline>>

(* No tab yet. *)
AppNoTabs == AppHead \o <<"</CustomApplication>">>

(* Every tab on a line of its own. *)
AppTabs ==
    AppHead \o AccountTab \o <<"<tabs>", "standard-Contact", "</tabs>", Newline>>
    \o <<"</CustomApplication>">>

(* The last tab entry has its text on a line of its own. *)
AppSplitEntry ==
    AppHead \o AccountTab
    \o <<"<tabs>", Newline, "standard-Contact", Newline, "</tabs>", Newline>>
    \o <<"</CustomApplication>">>

(* The first tab entry has its text on a line of its own. *)
AppSplitFirst ==
    AppHead \o <<"<tabs>", Newline, "standard-Contact", Newline, "</tabs>", Newline>>
    \o AccountTab \o <<"</CustomApplication>">>

AppDocs == {AppNoTabs, AppTabs, AppSplitEntry, AppSplitFirst}

AppNames == {SalesApp, SalesApp \o AppSuffix, <<"standard", "__", "Service">>}

TabObjects == {<<"Offer">>, <<"Favorite">>, <<"Offer", "__c">>}

TabIcons == {<<"Custom1: Heart">>}

InitApps ==
    /\ version \in {v \in Versions : HasLayouts(v)}
    /\ objectDirs = {}
    /\ fieldsDirs = {}
    /\ objFiles = <<>>
    /\ fieldFiles = <<>>
    /\ dataFiles = <<>>
    /\ rows = <<>>
    /\ reqWritten = {}
    /\ calls = 0
    /\ call = EmptyCall
    /\ layouts = <<>>
    /\ permFiles = <<>>
    /\ permSeen = <<>>
    /\ pending = {}
    /\ reports = <<>>
    /\ apps \in {<<>>} \cup {appFileName(SalesApp) :> d : d \in AppDocs}
    /\ tabFiles = <<>>
    /\ inflight = <<>>
    /\ log = <<>>
    /\ firstRun = NoRun

AppsCreateTab ==
    /\ calls < MaxCalls
    /\ \E o \in {<<"Offer">>}, icon \in TabIcons : CreateTab(o, icon)

AppsAddTab ==
    /\ calls < MaxCalls
    /\ \E app \in AppNames, o \in TabObjects : AddTabToApp(app, o)

NextApps == AppsCreateTab \/ AppsAddTab

SpecApps == InitApps /\ [][NextApps]_vars

----------------------------------------------------------------------------

(* The execution block of createFieldsNLayouts.ts, run twice on one         *)
(* project folder: the statements in order, each run to completion; an      *)
(* uncaught error ends the process.                                         *)

ScriptField(n, l, t, d, req, ref, rl, rn) ==
    [name |-> n, label |-> l, type |-> t, description |-> d, required |-> req,
     referenceTo |-> ref, relationshipLabel |-> rl, relationshipName |-> rn]

offerNameOptions ==
    [given |-> TRUE, type |-> "AutoNumber", label |-> <<"Offer Name">>,
     displayFormat |-> <<"OF-{0000}">>, startingNumber |-> <<"1">>]

favNameOptions ==
    [given |-> TRUE, type |-> "Text", label |-> <<"Favorite Name">>,
     displayFormat |-> UNDEF, startingNumber |-> UNDEF]

OfferFields ==
    <<ScriptField(<<"Offer", "_", "Amount">>, <<"Offer Amount">>, "Currency", UNDEF,
                  "true", UNDEF, UNDEF, UNDEF),
      ScriptField(<<"Target", "_", "Close", "_", "Date">>, <<"Target Close Date">>, "Date",
                  UNDEF, "true", UNDEF, UNDEF, UNDEF)>>

FavoriteFields ==
    <<ScriptField(<<"Contact">>, <<"Contact">>, "Lookup",
                  <<"The person who favorited this item">>, "false", <<"Contact">>,
                  <<"Favorites">>, <<"Favorites">>)>>

FavoriteLayout == <<"Favorite", "__c", "-", "Favorite", " Layout">>

ContactLayouts ==
    {<<"Contact", "-", "Contact", " %28Marketing%29", " Layout">>,
     <<"Contact", "-", "Contact", " %28Sales%29", " Layout">>,
     <<"Contact", "-", "Contact", " %28Support%29", " Layout">>,
     ContactLayout}

Step(op, a, b, c) == [op |-> op, a |-> a, b |-> b, c |-> c]

(* The statements of the block, in order. *)
ScriptSteps ==
    <<Step("createObject", <<"Offer">>, <<"Offers">>, offerNameOptions),
      Step("createFields", OfferFields, <<>>, <<>>),
      Step("createTab", <<"Offer">>, <<"Custom1: Heart">>, <<>>),
      Step("createLayout", <<"Offer">>, <<>>, <<>>),
      Step("addFieldToLayout", OfferLayout, <<"Offer", "_", "Amount", "__c">>, <<>>),
      Step("addFieldToLayout", OfferLayout,
           <<"Target", "_", "Close", "_", "Date", "__c">>, <<>>),
      Step("createPermissionSet", <<"Offer">>, <<>>, <<>>),
      Step("addTabToApp", SalesApp, <<"Offer">>, <<>>),
      Step("createObject", <<"Favorite">>, <<"Favorites">>, favNameOptions),
      Step("createFields", FavoriteFields, <<>>, <<>>),
      Step("createTab", <<"Favorite">>, <<"Custom11: Star">>, <<>>),
      Step("createLayout", <<"Favorite">>, <<>>, <<>>),
      Step("addFieldToLayout", FavoriteLayout, <<"Contact", "__c">>, <<>>),
      Step("createPermissionSet", <<"Favorite">>, <<>>, <<>>),
      Step("addTabToApp", SalesApp, <<"Favorite">>, <<>>),
      Step("addRelatedListToLayout",
           <<"Contact", "-", "Contact", " %28Marketing%29", " Layout">>,
           <<"Favorite", "__c">>, <<"Contact", "__c">>),
      Step("addRelatedListToLayout",
           <<"Contact", "-", "Contact", " %28Sales%29", " Layout">>,
           <<"Favorite", "__c">>, <<"Contact", "__c">>),
      Step("addRelatedListToLayout",
           <<"Contact", "-", "Contact", " %28Support%29", " Layout">>,
           <<"Favorite", "__c">>, <<"Contact", "__c">>),
      Step("addRelatedListToLayout", ContactLayout,
           <<"Favorite", "__c">>, <<"Contact", "__c">>)>>

ScriptLength == Len(ScriptSteps)

(* The statements the running process has completed. *)
Done == IF firstRun = NoRun THEN calls ELSE calls - ScriptLength

(* The files of the project folder. *)
Files ==
    [objectDirs |-> objectDirs, fieldsDirs |-> fieldsDirs, objFiles |-> objFiles,
     fieldFiles |-> fieldFiles, tabFiles |-> tabFiles, layouts |-> layouts,
     permFiles |-> permFiles, apps |-> apps]

(* Which Contact layouts were retrieved and which application file is       *)
(* there differs from project to project.                                   *)
InitScript ==
    /\ version = CFL
    /\ objectDirs = {}
    /\ fieldsDirs = {}
    /\ objFiles = <<>>
    /\ fieldFiles = <<>>
    /\ dataFiles = <<>>
    /\ rows = <<>>
    /\ reqWritten = {}
    /\ calls = 0
    /\ call = EmptyCall
    /\ \E present \in SUBSET ContactLayouts :
          layouts = [f \in {layoutFileName(n) : n \in present} |-> OneColumnFirst]
    /\ permFiles = <<>>
    /\ permSeen = <<>>
    /\ pending = {}
    /\ reports = <<>>
    /\ apps \in {<<>>} \cup {appFileName(SalesApp) :> d : d \in AppDocs}
    /\ tabFiles = <<>>
    /\ inflight = <<>>
    /\ log = <<>>
    /\ firstRun = NoRun

(* The next statement, when the process has not ended. *)
Statement(op) ==
    /\ Running
    /\ Done < ScriptLength
    /\ ScriptSteps[Done + 1].op = op

ScriptCreateObject ==
    /\ Statement("createObject")
    /\ LET st == ScriptSteps[Done + 1] IN CreateObject(st.a, st.a, st.b, st.c)

(* createFields(offerPath, ...): the path the createObject call returned. *)
ScriptCreateFields ==
    /\ Statement("createFields")
    /\ CreateFields(call.ret, ScriptSteps[Done + 1].a)

ScriptCreateTab ==
    /\ Statement("createTab")
    /\ LET st == ScriptSteps[Done + 1] IN CreateTab(st.a, st.b)

ScriptCreateLayout ==
    /\ Statement("createLayout")
    /\ CreateLayout(ScriptSteps[Done + 1].a)

ScriptAddField ==
    /\ Statement("addFieldToLayout")
    /\ LET st == ScriptSteps[Done + 1] IN AddFieldToLayout(st.a, st.b)

ScriptCreatePermissionSet ==
    /\ Statement("createPermissionSet")
    /\ CreatePermissionSet(ScriptSteps[Done + 1].a)

ScriptAddTab ==
    /\ Statement("addTabToApp")
    /\ LET st == ScriptSteps[Done + 1] IN AddTabToApp(st.a, st.b)

ScriptAddRelatedList ==
    /\ Statement("addRelatedListToLayout")
    /\ LET st == ScriptSteps[Done + 1] IN AddRelatedListToLayout(st.a, st.b, st.c)

(* The first run has ended; the script is started again. *)
ScriptAgain ==
    /\ Running
    /\ firstRun = NoRun
    /\ calls = ScriptLength
    /\ firstRun' = <<Files>>
    /\ UNCHANGED <<version, objectDirs, fieldsDirs, objFiles, fieldFiles, dataFiles,
                   rows, reqWritten, calls, call, layouts, permFiles, permSeen, pending,
                   reports, apps, tabFiles, inflight, log>>

NextScript ==
    \/ ScriptCreateObject
    \/ ScriptCreateFields
    \/ ScriptCreateTab
    \/ ScriptCreateLayout
    \/ ScriptAddField
    \/ ScriptCreatePermissionSet
    \/ ScriptAddTab
    \/ ScriptAddRelatedList
    \/ ScriptAgain

(* The run has not ended and the last call did not raise. *)
StatementReady == Running /\ Done < ScriptLength

(* One statement of the script is executed. *)
RunsStatement == StatementReady /\ calls' = calls + 1

(* A statement that is reached is executed: the script is synchronous and  *)
(* nothing else runs in the process.                                        *)
SpecScript == InitScript /\ [][NextScript]_vars /\ WF_calls(RunsStatement)

----------------------------------------------------------------------------

(* Record batches: createRecords on an object with required and optional    *)
(* fields, or on an object without a fields folder.                         *)

ReferenceIdKey == <<"referenceId">>

RecordFieldLists ==
    {<<Field(<<"Mandatory">>, "TextArea", "true", UNDEF),
       Field(<<"Price">>, "Currency", "undefined", UNDEF)>>,
     <<Field(<<"Price">>, "Currency", "true", UNDEF)>>}

Row(keys) == [k \in keys |-> Scalar(<<"x">>)]

RecordRows ==
    {Row({}), Row({NameKey}), Row({NameKey, <<"Price">> \o Suffix}),
     Row({<<"Price">> \o Suffix}), Row({AttributesKey}),
     Row({NameKey, ReferenceIdKey})}

(* The nameFieldOptions a caller of this generation can pass. *)
RecordOptions(v) ==
    IF HasNameFieldOptions(v) THEN {NoOptions, TextOptions, ValidAutoNumber}
    ELSE {NoOptions}

RecordsObject ==
    /\ call.op = "none"
    /\ \E o \in RecordOptions(version) :
          CreateObject(<<"Property">>, <<"Property">>, <<"Properties">>, o)

RecordsFields ==
    /\ call.op = "createObject"
    /\ \E fl \in RecordFieldLists : CreateFields(call.ret, fl)

RecordsRecords ==
    /\ call.op # "createRecords"
    /\ \E n \in {<<"Property">>, <<"Account">>}, rl \in SeqsUpTo(RecordRows, MaxRows),
          o \in RecordOptions(version) :
          CreateRecords(n, rl, o)

NextRecords == RecordsObject \/ RecordsFields \/ RecordsRecords

SpecRecords == Init /\ [][NextRecords]_vars

(* The caller passes the array it passed to the previous call, as that call *)
(* left it, with the same object name and options.                          *)
RowsAgain ==
    /\ call.op = "createRecords"
    /\ calls <= MaxCalls
    /\ CreateRecords(call.target, rows, call.opts)

NextRows == RecordsObject \/ RecordsFields \/ RecordsRecords \/ RowsAgain

SpecRows == Init /\ [][NextRows]_vars

----------------------------------------------------------------------------
(* Permission sets: createPermissionSet before and after createObject and   *)
(* createFields, on a project that may hold field files of an earlier run.  *)

(* A field file an earlier run left in Property__c/fields. *)
LeftOverKey == <<<<"Property", "__c">>, <<"Old", "__c">>>>

LeftOverField == Field(<<"Old">>, "Text", "undefined", UNDEF)

PermissionFieldLists ==
    {<<Field(<<"Price">>, "Currency", "true", UNDEF)>>,
     <<Field(<<"Price">>, "Currency", "true", UNDEF),
       Field(<<"Close", "_", "Date">>, "Date", "undefined", UNDEF)>>}

InitPermissions ==
    /\ version \in Versions
    /\ \/ /\ objectDirs = {}
          /\ fieldsDirs = {}
          /\ fieldFiles = <<>>
       \/ /\ objectDirs = {<<"Property", "__c">>}
          /\ fieldsDirs = {<<"Property", "__c">>}
          /\ fieldFiles = (LeftOverKey :> fieldXml(version, LeftOverField))
    /\ objFiles = <<>>
    /\ dataFiles = <<>>
    /\ rows = <<>>
    /\ reqWritten = {}
    /\ calls = 0
    /\ call = EmptyCall
    /\ layouts = <<>>
    /\ permFiles = <<>>
    /\ permSeen = <<>>
    /\ pending = {}
    /\ reports = <<>>
    /\ apps = <<>>
    /\ tabFiles = <<>>
    /\ inflight = <<>>
    /\ log = <<>>
    /\ firstRun = NoRun

PermissionsObject ==
    /\ calls < MaxCalls
    /\ CreateObject(<<"Property">>, <<"Property">>, <<"Properties">>, NoOptions)

PermissionsFields ==
    /\ calls < MaxCalls
    /\ \E folder \in fieldsDirs, fl \in PermissionFieldLists : CreateFields(folder, fl)

PermissionsCreate ==
    /\ calls < MaxCalls
    /\ \E n \in RawNames : CreatePermissionSet(n)

NextPermissions == PermissionsObject \/ PermissionsFields \/ PermissionsCreate

SpecPermissions == InitPermissions /\ [][NextPermissions]_vars

----------------------------------------------------------------------------
(* Object names: createObject, createFields and createPermissionSet called  *)
(* with standard names, custom names with and without the suffix, and names *)
(* that only resemble a standard one.                                       *)

HelperNames ==
    STANDARD_OBJECTS
    \cup {<<"Property">>, <<"Property", "__c">>, <<"account">>, <<"Account", "s">>,
          <<"Case", "__c">>}

NameFieldLists == {<<Field(<<"Price">>, "Currency", "true", UNDEF)>>}

InitNames ==
    /\ version \in Versions
    /\ objectDirs = {}
    /\ fieldsDirs = {}
    /\ objFiles = <<>>
    /\ fieldFiles = <<>>
    /\ dataFiles = <<>>
    /\ rows = <<>>
    /\ reqWritten = {}
    /\ calls = 0
    /\ call = EmptyCall
    /\ layouts = <<>>
    /\ permFiles = <<>>
    /\ permSeen = <<>>
    /\ pending = {}
    /\ reports = <<>>
    /\ apps = <<>>
    /\ tabFiles = <<>>
    /\ inflight = <<>>
    /\ log = <<>>
    /\ firstRun = NoRun

NamesObject ==
    /\ calls < MaxCalls
    /\ \E n \in HelperNames : CreateObject(n, n, n, NoOptions)

NamesFields ==
    /\ calls < MaxCalls
    /\ \E folder \in fieldsDirs, fl \in NameFieldLists : CreateFields(folder, fl)

NamesPermission ==
    /\ calls < MaxCalls
    /\ \E n \in HelperNames : CreatePermissionSet(n)

NextNames == NamesObject \/ NamesFields \/ NamesPermission

SpecNames == InitNames /\ [][NextNames]_vars

----------------------------------------------------------------------------
(* Permission-set assignment: assignPermissionSet calls and the completion  *)
(* of the external commands they started, in any order.                     *)

PermSetNames == {<<"Offer", "_", "Manager">>}

TargetOrgs == {<<"my", "_", "dev", "_", "org">>}

(* What the command wrote to its standard output. *)
Outputs == {<<>>, <<"Permsets Assigned">>}

AssignStart ==
    /\ calls < MaxCalls
    /\ \E n \in PermSetNames, org \in TargetOrgs : AssignPermissionSet(n, org)

AssignComplete ==
    \E cmd \in pending, error \in BOOLEAN, stdout \in Outputs :
        ExecCallback(cmd, error, stdout)

NextAssign == AssignStart \/ AssignComplete

SpecAssign == Init /\ [][NextAssign]_vars

----------------------------------------------------------------------------
(* Properties *)

StandardList ==
    {<<"Account">>, <<"Contact">>, <<"Opportunity">>, <<"Lead">>, <<"Case">>}

(* The name the rule of the specification gives a raw object name. *)
Resolved(rawName) ==
    IF rawName \in StandardList \/ endsWith(rawName, Suffix) THEN rawName
    ELSE rawName \o Suffix

Range(s) == {s[i] : i \in 1..Len(s)}

(* C1: in the generations that resolve names with getObjectDetails, a raw   *)
(* name that is standard or already ends with "__c" keeps apiName =         *)
(* folderName = rawName, and every other raw name gets "__c" appended to    *)
(* both; the folder made, the object file and the record type carry it.     *)
C1_NameResolution ==
    (call.op \in {"createObject", "createRecords"} /\ version # CF1) =>
        /\ call.apiName = Resolved(call.target)
        /\ call.folderName = Resolved(call.target)
        /\ call.op = "createObject" =>
              /\ Resolved(call.target) \in objectDirs
              /\ call.status = "returned" =>
                    /\ <<Resolved(call.target), Resolved(call.target)>> \in DOMAIN objFiles
                    /\ Capture(objFiles[<<Resolved(call.target), Resolved(call.target)>>],
                               "<fullName>", "</fullName>") = Resolved(call.target)
        /\ call.op = "createRecords" =>
              \A i \in 1..Len(dataFiles[call.target]) :
                  dataFiles[call.target][i][AttributesKey].type = Resolved(call.target)

C1_Witness ==
    /\ version # CF1
    /\ call.op = "createObject"
    /\ call.status = "returned"
    /\ call.target = <<"Property", "__c">>
    /\ call.apiName = <<"Property", "__c">>
    /\ <<"Property", "__c">> \in objectDirs

(* C2: resolving the apiName that resolving a raw name produced yields that *)
(* apiName again: a createObject call on the apiName of the call before it  *)
(* resolves to the same name, with no second "__c".                         *)
C2_Idempotent ==
    [][(/\ call.op = "createObject"
        /\ call'.op = "createObject"
        /\ calls' = calls + 1
        /\ call'.target = call.apiName) => call'.apiName = call'.target]_vars

(* C3 as stated: after createObject returns for a non-standard name, the    *)
(* folder <name>__c, its fields folder and <name>__c.object-meta.xml exist  *)
(* and the fields folder is the returned path.                              *)
C3_Original ==
    (/\ call.op = "createObject"
     /\ call.status = "returned"
     /\ call.target \notin StandardList) =>
        /\ call.target \o Suffix \in objectDirs
        /\ call.target \o Suffix \in fieldsDirs
        /\ <<call.target \o Suffix, call.target \o Suffix>> \in DOMAIN objFiles
        /\ call.ret = call.target \o Suffix

(* C3 amended: the same for a non-standard name that does not already end   *)
(* with "__c", whether or not the folders existed before the call.          *)
C3_CustomObjectFolder ==
    (/\ call.op = "createObject"
     /\ call.status = "returned"
     /\ call.target \notin StandardList
     /\ ~endsWith(call.target, Suffix)) =>
        /\ call.target \o Suffix \in objectDirs
        /\ call.target \o Suffix \in fieldsDirs
        /\ <<call.target \o Suffix, call.target \o Suffix>> \in DOMAIN objFiles
        /\ call.ret = call.target \o Suffix

C3_Witness ==
    /\ call.op = "createObject"
    /\ call.status = "returned"
    /\ call.target = <<"Property">>
    /\ call.existed
    /\ call.ret = <<"Property", "__c">>
    /\ <<"Property", "__c">> \in fieldsDirs
    /\ <<<<"Property", "__c">>, <<"Property", "__c">>>> \in DOMAIN objFiles

C5_RequiredFilled ==
    call.op = "createRecords" =>
        \A key \in reqWritten : key[1] = call.folderName =>
            \A i \in 1..Len(call.rowsIn) :
                LET out == dataFiles[call.target][i]
                IN /\ key[2] \in DOMAIN out
                   /\ key[2] \notin DOMAIN call.rowsIn[i] => out[key[2]] = Null
                   /\ key[2] \in DOMAIN call.rowsIn[i] =>
                         out[key[2]] = call.rowsIn[i][key[2]]

C5_Witness ==
    /\ call.op = "createRecords"
    /\ Len(call.rowsIn) = 2
    /\ <<call.folderName, <<"Price", "__c">>>> \in reqWritten
    /\ <<"Price", "__c">> \notin DOMAIN call.rowsIn[1]
    /\ <<"Price", "__c">> \in DOMAIN call.rowsIn[2]
    /\ dataFiles[call.target][1][<<"Price", "__c">>] = Null
    /\ dataFiles[call.target][2][<<"Price", "__c">>] = Scalar(<<"x">>)

(* C6: every record createRecords emits has attributes.type equal to the    *)
(* resolved API name of the target: the raw name for a standard object or   *)
(* a name ending with "__c", the raw name plus "__c" otherwise.             *)
C6_RecordType ==
    call.op = "createRecords" =>
        \A i \in 1..Len(dataFiles[call.target]) :
            dataFiles[call.target][i][AttributesKey].type = Resolved(call.target)

RelationshipTypes == {"Lookup", "Master-Detail"}

(* C7: the document written for a Master-Detail field has no <required>    *)
(* tag, whatever its required flag.                                         *)
C7_MasterDetailNoRequired ==
    call.op = "createFields" =>
        \A i \in 1..Len(call.written) :
            call.fields[i].type = "Master-Detail" =>
                "<required>" \notin
                    Range(fieldFiles[<<call.folderName, call.written[i]>>])

(* C8: createFields raises the configuration error at a Lookup or           *)
(* Master-Detail field without referenceTo and writes no file for it.       *)
C8_MissingReferenceThrows ==
    call.op = "createFields" =>
        \A i \in 1..Len(call.fields) :
            (/\ call.fields[i].type \in RelationshipTypes
             /\ call.fields[i].referenceTo = UNDEF) =>
                /\ call.status = "threw"
                /\ call.failedAt = i
                /\ Len(call.written) = i - 1
                /\ <<call.folderName, call.fields[i].name \o Suffix>>
                      \notin DOMAIN fieldFiles

C8_Witness ==
    /\ call.op = "createFields"
    /\ call.status = "threw"
    /\ call.failedAt = 2
    /\ call.fields[2].type = "Master-Detail"
    /\ call.fields[2].referenceTo = UNDEF
    /\ call.written = <<<<"Address", "__c">>>>
    /\ DOMAIN fieldFiles = {<<call.folderName, <<"Address", "__c">>>>}

(* C9: createObject given an AutoNumber name field whose displayFormat is   *)
(* absent or empty raises the configuration error and writes no object      *)
(* definition file.                                                         *)
C9_AutoNumberNeedsFormat ==
    (/\ call.op = "createObject"
     /\ HasNameFieldOptions(version)
     /\ call.opts.given
     /\ call.opts.type = "AutoNumber"
     /\ call.opts.displayFormat \in {UNDEF, <<>>}) =>
        /\ call.status = "threw"
        /\ call.written = <<>>


(* The type-specific tags of a field document: what follows the type,       *)
(* description and required tags.                                           *)
TypeSpecificTags(doc) ==
    LET closers == {i \in 1..Len(doc) :
                       doc[i] \in {"</type>", "</description>", "</required>"}}
        last == CHOOSE i \in closers : \A j \in closers : j <= i
    IN SubSeq(doc, last + 1, Len(doc) - 1)

(* The rule table of the specification. *)
RuleTable(field) ==
    CASE field.type \in {"Currency", "Percent"} ->
            <<"<precision>", "18", "</precision>", "<scale>", "2", "</scale>">>
      [] field.type = "Number" ->
            <<"<precision>", "18", "</precision>", "<scale>", "0", "</scale>">>
      [] field.type \in {"Text", "Email", "Url", "Phone"} ->
            <<"<length>", "255", "</length>">>
      [] field.type \in {"Date", "DateTime", "Checkbox", "TextArea"} -> <<>>
      [] field.type = "Lookup" ->
            LET label == IF field.label # UNDEF THEN field.label
                         ELSE ReplaceUnderscores(field.name)
            IN <<"<deleteConstraint>", "SetNull", "</deleteConstraint>">>
               \o <<"<referenceTo>">> \o field.referenceTo \o <<"</referenceTo>">>
               \o <<"<relationshipLabel>">>
               \o (IF field.relationshipLabel # UNDEF THEN field.relationshipLabel
                   ELSE label)
               \o <<"</relationshipLabel>", "<relationshipName>">>
               \o (IF field.relationshipName # UNDEF THEN field.relationshipName
                   ELSE field.name)
               \o <<"</relationshipName>">>

(* C10: the type-specific tags of every field document createFields writes  *)
(* are those of the rule table for the field's type.                        *)
C10_RuleTable ==
    call.op = "createFields" =>
        \A i \in 1..Len(call.written) :
            call.fields[i].type # "Master-Detail" =>
                TypeSpecificTags(fieldFiles[<<call.folderName, call.written[i]>>])
                    = RuleTable(call.fields[i])

C10_Witness ==
    /\ version = CFL
    /\ call.op = "createFields"
    /\ call.status = "returned"
    /\ Len(call.written) = 1
    /\ call.fields[1].type = "Lookup"
    /\ call.fields[1].name = <<"Close", "_", "Date">>
    /\ call.fields[1].label = UNDEF
    /\ call.fields[1].relationshipLabel = UNDEF
    /\ call.fields[1].relationshipName = UNDEF
    /\ Includes(fieldFiles[<<call.folderName, call.written[1]>>],
                <<"<relationshipLabel>", "Close", " ", "Date", "</relationshipLabel>",
                  "<relationshipName>", "Close", "_", "Date", "</relationshipName>">>)


(* C11: an addFieldToLayout call with the layout and field of the           *)
(* addFieldToLayout call just before it leaves every layout document as     *)
(* that call left it.                                                       *)
C11_AddFieldIdempotent ==
    [][(/\ call.op = "addFieldToLayout"
        /\ call'.op = "addFieldToLayout"
        /\ calls' = calls + 1
        /\ call'.target = call.target
        /\ call'.field = call.field) => layouts' = layouts]_vars

C11_Witness ==
    /\ calls = 2
    /\ call.op = "addFieldToLayout"
    /\ call.target = ContactLayout
    /\ call.field = <<"Price", "__c">>
    /\ Includes(call.before, newFieldXml(<<"Price", "__c">>))
    /\ layouts[layoutFileName(ContactLayout)] = call.before

(* C12: an addRelatedListToLayout call with the layout, child object and    *)
(* lookup field of the addRelatedListToLayout call just before it leaves    *)
(* every layout document as that call left it.                              *)
C12_AddRelatedListIdempotent ==
    [][(/\ call.op = "addRelatedListToLayout"
        /\ call'.op = "addRelatedListToLayout"
        /\ calls' = calls + 1
        /\ call'.target = call.target
        /\ call'.child = call.child
        /\ call'.lookup = call.lookup) => layouts' = layouts]_vars

C12_Witness ==
    /\ calls = 2
    /\ call.op = "addRelatedListToLayout"
    /\ call.target = ContactLayout
    /\ Includes(call.before,
                relatedListXml(relatedListId(<<"Favorite", "__c">>, <<"Contact", "__c">>)))
    /\ layouts[layoutFileName(ContactLayout)] = call.before

(* The sections of a layout document: first and last index of each. *)
Sections(doc) ==
    {<<s, e>> \in (1..Len(doc)) \X (1..Len(doc)) :
        /\ doc[s] = "<layoutSections>"
        /\ s < e
        /\ doc[e] = "</layoutSections>"
        /\ \A k \in (s + 1)..(e - 1) : doc[k] # "</layoutSections>"}

(* The sections whose style begins with "TwoColumns". *)
TwoColumnSections(doc) ==
    {sec \in Sections(doc) :
        \E t \in (sec[1] + 1)..(sec[2] - 2) :
            doc[t] = "<style>" /\ doc[t + 1] \in TwoColumnStyles}

InsertBefore(doc, p, tokens) ==
    SubSeq(doc, 1, p - 1) \o tokens \o SubSeq(doc, p, Len(doc))

(* C13: when the layout file exists, does not contain the field and has a   *)
(* section whose style begins with "TwoColumns", addFieldToLayout leaves    *)
(* the document with one new Edit item for the field, put immediately       *)
(* before the closing tag of a column of the first such section.            *)
C13_InsertsInFirstTwoColumnSection ==
    (/\ call.op = "addFieldToLayout"
     /\ call.existed
     /\ ~spacedElementTest(call.before, "<field>", call.field, "</field>")
     /\ TwoColumnSections(call.before) # {}) =>
        LET first == CHOOSE sec \in TwoColumnSections(call.before) :
                        \A other \in TwoColumnSections(call.before) : sec[1] <= other[1]
        IN \E p \in first[1]..first[2] :
              /\ call.before[p] = "</layoutColumns>"
              /\ layouts[layoutFileName(call.target)] =
                    InsertBefore(call.before, p, LayoutItem("Edit", call.field))

(* C18: an addFieldToLayout or addRelatedListToLayout call on a layout file *)
(* that does not exist returns without raising and leaves every file as it  *)
(* was, the missing layout file not created.                                *)
C18_MissingLayoutNoChange ==
    [][(/\ call'.op \in {"addFieldToLayout", "addRelatedListToLayout"}
        /\ calls' = calls + 1
        /\ layoutFileName(call'.target) \notin DOMAIN layouts) =>
           /\ call'.status = "returned"
           /\ layouts' = layouts
           /\ UNCHANGED <<objFiles, fieldFiles, dataFiles, permFiles>>]_vars

C18_Witness ==
    /\ call.op = "addRelatedListToLayout"
    /\ call.status = "returned"
    /\ ~call.existed
    /\ call.target = OfferLayout
    /\ DOMAIN layouts = {layoutFileName(ContactLayout)}


(* C14: every record createRecords emits carries under "attributes" the     *)
(* envelope {type: apiName, referenceId: "ref" + rowIndex}, whatever keys   *)
(* the row itself has.                                                      *)
C14_EnvelopeKept ==
    call.op = "createRecords" =>
        \A i \in 1..Len(call.rowsIn) :
            /\ AttributesKey \in DOMAIN dataFiles[call.target][i]
            /\ dataFiles[call.target][i][AttributesKey] = Attributes(call.apiName, i - 1)

(* C15: with AutoNumber name-field options no emitted record has a "Name"   *)
(* key; with Text options or none, a "Name" the row supplies is in the      *)
(* record with the row's value.                                             *)
C15_NameKey ==
    call.op = "createRecords" =>
        \A i \in 1..Len(call.rowsIn) :
            LET out == dataFiles[call.target][i]
            IN /\ (call.opts.given /\ call.opts.type = "AutoNumber") =>
                     NameKey \notin DOMAIN out
               /\ ((~call.opts.given \/ call.opts.type = "Text")
                   /\ NameKey \in DOMAIN call.rowsIn[i]) =>
                     /\ NameKey \in DOMAIN out
                     /\ out[NameKey] = call.rowsIn[i][NameKey]

C15_Witness ==
    /\ call.op = "createRecords"
    /\ call.opts.given
    /\ call.opts.type = "AutoNumber"
    /\ Len(call.rowsIn) = 2
    /\ NameKey \in DOMAIN call.rowsIn[1]
    /\ NameKey \notin DOMAIN dataFiles[call.target][1]
    /\ <<"Mandatory", "__c">> \in DOMAIN dataFiles[call.target][1]
    /\ dataFiles[call.target][1][<<"Mandatory", "__c">>] = Null
    /\ dataFiles[call.target][1][AttributesKey].referenceId = 0

(* C16: for n input rows createRecords emits n records in input order, and  *)
(* record i (from zero) has referenceId "ref" + i.                          *)
C16_BatchOrder ==
    call.op = "createRecords" =>
        /\ Len(dataFiles[call.target]) = Len(call.rowsIn)
        /\ \A i \in 1..Len(call.rowsIn) :
              LET out == dataFiles[call.target][i]
              IN /\ \A k \in (DOMAIN call.rowsIn[i]) \ {NameKey, AttributesKey} :
                       k \in DOMAIN out /\ out[k] = call.rowsIn[i][k]
                 /\ out[AttributesKey].kind = "attributes"
                 /\ out[AttributesKey].referenceId = i - 1

(* Is this field file marked required? *)
MarkedRequired(key) ==
    /\ key \in DOMAIN fieldFiles
    /\ Includes(fieldFiles[key], <<"<required>", "true", "</required>">>)

(* C20: every key of an output record is "attributes", a key of its input   *)
(* row, or the API name of a field marked required; a field not marked      *)
(* required stays absent when the row lacks it and keeps the row's value    *)
(* when the row supplies it.                                                *)
C20_OnlyRequiredFilled ==
    call.op = "createRecords" =>
        \A i \in 1..Len(call.rowsIn) :
            LET out == dataFiles[call.target][i]
                row == call.rowsIn[i]
            IN /\ \A k \in DOMAIN out :
                     \/ k = AttributesKey
                     \/ k \in DOMAIN row
                     \/ MarkedRequired(<<call.folderName, k>>)
               /\ \A key \in DOMAIN fieldFiles :
                     (key[1] = call.folderName /\ ~MarkedRequired(key)) =>
                        /\ key[2] \notin DOMAIN row => key[2] \notin DOMAIN out
                        /\ key[2] \in DOMAIN row =>
                              key[2] \in DOMAIN out /\ out[key[2]] = row[key[2]]

C20_Witness ==
    /\ call.op = "createRecords"
    /\ call.target = <<"Property">>
    /\ Len(call.rowsIn) = 2
    /\ DOMAIN call.rowsIn[1] = {NameKey}
    /\ DOMAIN call.rowsIn[2] = {<<"Price", "__c">>}
    /\ ~MarkedRequired(<<call.folderName, <<"Price", "__c">>>>)
    /\ MarkedRequired(<<call.folderName, <<"Mandatory", "__c">>>>)
    /\ DOMAIN dataFiles[call.target][1] = {AttributesKey, NameKey, <<"Mandatory", "__c">>}
    /\ dataFiles[call.target][1][<<"Mandatory", "__c">>] = Null
    /\ <<"Price", "__c">> \in DOMAIN dataFiles[call.target][2]
    /\ dataFiles[call.target][2][<<"Price", "__c">>] = Scalar(<<"x">>)


Occurrences(s, sub) ==
    Cardinality({i \in 1..(Len(s) - Len(sub) + 1) : SubSeq(s, i, i + Len(sub) - 1) = sub})

(* The field files in the fields folder of an object, by field API name. *)
FieldFilesOf(rawName) ==
    IF Resolved(rawName) \in fieldsDirs
    THEN {k[2] : k \in {f \in DOMAIN fieldFiles : f[1] = Resolved(rawName)}}
    ELSE {}

(* C17: a permission-set document has exactly one read/edit                 *)
(* fieldPermissions entry for every file that was in the object's fields    *)
(* folder when createPermissionSet ran, none for fields written later, and  *)
(* it is written with no entry when that folder does not exist.             *)
C17_FieldPermissions ==
    /\ call.op = "createPermissionSet" =>
          /\ call.status = "returned"
          /\ call.target \in DOMAIN permFiles
          /\ permSeen[call.target] = {f \o FieldFileSuffix : f \in FieldFilesOf(call.target)}
    /\ \A t \in DOMAIN permFiles :
          /\ \A file \in permSeen[t] :
                Occurrences(permFiles[t],
                            <<"<fieldPermissions>", "<editable>", "true", "</editable>",
                              "<field>">> \o Resolved(t) \o <<".">>
                            \o SubSeq(file, 1, Len(file) - 1)
                            \o <<"</field>", "<readable>", "true", "</readable>",
                                 "</fieldPermissions>">>) = 1
          /\ Occurrences(permFiles[t], <<"<fieldPermissions>">>)
                = Cardinality(permSeen[t])

C17_Witness ==
    /\ call.op = "createFields"
    /\ <<"Property">> \in DOMAIN permFiles
    /\ <<"Account">> \in DOMAIN permFiles
    /\ permSeen[<<"Property">>] = {<<"Old", "__c", ".field-meta.xml">>}
    /\ permSeen[<<"Account">>] = {}
    /\ FieldFilesOf(<<"Property">>) = {<<"Old", "__c">>, <<"Price", "__c">>}
    /\ Occurrences(permFiles[<<"Property">>], <<"<fieldPermissions>">>) = 1
    /\ Occurrences(permFiles[<<"Account">>], <<"<fieldPermissions>">>) = 0


(* C19: every completed assignPermissionSet command has exactly one         *)
(* outcome reported: the failure report with the deploy hint when it ended  *)
(* in error, the success report when it ended without error.                *)
C19_OneOutcome ==
    \A i \in 1..Len(reports) :
        /\ reports[i].error =>
              /\ Occurrences(reports[i].printed, <<"Error assigning permission.">>) = 1
              /\ Occurrences(reports[i].printed,
                             <<"(Make sure you have run 'npm run deploy' first!)">>) = 1
              /\ Occurrences(reports[i].printed, <<"Success!">>) = 0
        /\ ~reports[i].error =>
              /\ Occurrences(reports[i].printed, <<"Success!">>) = 1
              /\ Occurrences(reports[i].printed, <<"Error assigning permission.">>) = 0

(* C21: when the layout file exists, does not contain the field and has no  *)
(* section whose style begins with "TwoColumns", addFieldToLayout returns   *)
(* and the layout document is what it was before the call.                  *)
C21_NoTwoColumnNoChange ==
    (/\ call.op = "addFieldToLayout"
     /\ call.existed
     /\ ~Includes(call.before, <<"<field>">> \o call.field \o <<"</field>">>)
     /\ TwoColumnSections(call.before) = {}) =>
        /\ call.status = "returned"
        /\ layouts[layoutFileName(call.target)] = call.before

C21_Witness ==
    /\ call.op = "addFieldToLayout"
    /\ call.existed
    /\ call.target = ContactLayout
    /\ call.field = <<"Price", "__c">>
    /\ call.before = NoTwoColumn
    /\ ~Includes(call.before, <<"<field>", "Price", "__c", "</field>">>)
    /\ layouts[layoutFileName(ContactLayout)] = NoTwoColumn

(* Is <relatedList>id</relatedList> in the document, as the duplicate check *)
(* of this generation reads it (part_000:990 allows blanks around the id)?  *)
ListsRelated(doc, id) ==
    IF version = P0B
    THEN \E a \in 0..1, b \in 0..1 :
            Includes(doc, <<"<relatedList>">> \o Blanks(a) \o id \o Blanks(b)
                          \o <<"</relatedList>">>)
    ELSE Includes(doc, <<"<relatedList>">> \o id \o <<"</relatedList>">>)

(* C22: when the layout file exists and does not list child.lookup,         *)
(* addRelatedListToLayout leaves the original document with one            *)
(* relatedLists block (a NAME column and the identifier child "." lookup)   *)
(* put immediately before the closing </Layout> tag, after every related    *)
(* list an earlier call added, and everything else as it was.               *)
C22_AppendsRelatedList ==
    (/\ call.op = "addRelatedListToLayout"
     /\ call.existed
     /\ ~ListsRelated(call.before, call.child \o <<".">> \o call.lookup)) =>
        LET doc == layouts[layoutFileName(call.target)]
            block == <<"<relatedLists>", "<fields>", "NAME", "</fields>",
                       "<relatedList>">>
                     \o call.child \o <<".">> \o call.lookup
                     \o <<"</relatedList>", "</relatedLists>">>
        IN /\ call.before[Len(call.before)] = "</Layout>"
           /\ doc = InsertBefore(call.before, Len(call.before), block)
           /\ Occurrences(doc, block) = 1
           /\ \A i \in 1..Len(doc) : doc[i] = "<relatedLists>" => i <= Len(call.before)

C22_Witness ==
    /\ calls = 2
    /\ call.op = "addRelatedListToLayout"
    /\ call.existed
    /\ call.target = ContactLayout
    /\ call.child = <<"Offer", "__c">>
    /\ layouts[layoutFileName(ContactLayout)] =
          InsertBefore(OneColumnFirst, Len(OneColumnFirst),
                       relatedListXml(<<"Favorite", "__c", ".", "Contact", "__c">>)
                       \o relatedListXml(<<"Offer", "__c", ".", "Contact", "__c">>))

(* C23: when the k-th field of a createFields call raises the              *)
(* configuration error, the files of the k-1 fields before it are written,  *)
(* in list order, and every other file is as it was before the call: none   *)
(* is written for the k-th field or a field after it, none is rolled back.  *)
C23_NoRollback ==
    [][(/\ call'.op = "createFields"
        /\ calls' = calls + 1
        /\ call'.status = "threw") =>
           LET k == call'.failedAt
               fl == call'.fields
               key(i) == <<call'.folderName, fl[i].name \o Suffix>>
               done == {key(i) : i \in 1..(k - 1)}
           IN /\ k \in 1..Len(fl)
              /\ fl[k].type \in RelationshipTypes /\ fl[k].referenceTo = UNDEF
              /\ call'.written = [i \in 1..(k - 1) |-> fl[i].name \o Suffix]
              /\ \A i \in 1..(k - 1) :
                    /\ key(i) \in DOMAIN fieldFiles'
                    /\ (\A j \in (i + 1)..(k - 1) : key(j) # key(i)) =>
                          /\ Capture(fieldFiles'[key(i)], "<fullName>", "</fullName>")
                                = fl[i].name \o Suffix
                          /\ Includes(fieldFiles'[key(i)],
                                      <<"<type>", fl[i].type, "</type>">>)
              /\ DOMAIN fieldFiles' = DOMAIN fieldFiles \cup done
              /\ \A f \in (DOMAIN fieldFiles) \ done : fieldFiles'[f] = fieldFiles[f]]_vars

C23_Witness ==
    /\ call.op = "createFields"
    /\ call.status = "threw"
    /\ call.failedAt = 2
    /\ Len(call.fields) = 3
    /\ call.fields[1].name = <<"Address">>
    /\ call.fields[2].name = <<"Price">>
    /\ call.fields[3].name = <<"Close", "_", "Date">>
    /\ call.written = <<<<"Address", "__c">>>>
    /\ DOMAIN fieldFiles = {<<call.folderName, <<"Address", "__c">>>>, EarlierPriceKey}
    /\ Includes(fieldFiles[EarlierPriceKey], <<"<type>", "Currency", "</type>">>)

(* C24: two addFieldToLayout calls for different fields on one layout that  *)
(* both read before either wrote, with no other write to the layout since   *)
(* the first of the two reads: once the second has written, the document    *)
(* holds the second writer's field and not the first's, and both calls      *)
(* printed the line of a successful insertion.                              *)
C24_LastWriterWins ==
    \A i \in 1..Len(log) :
        LET j == Len(log)
            docFile == log[j].file
            fieldTag(e) == <<"<field>">> \o e.field \o <<"</field>">>
        IN (/\ i < j
            /\ log[i].wroteAt # 0
            /\ log[j].wroteAt = Clock
            /\ log[i].file = docFile
            /\ log[i].field # log[j].field
            /\ log[i].readAt < log[j].wroteAt
            /\ log[j].readAt < log[i].wroteAt
            /\ \A k \in 1..Len(log) :
                  (k \notin {i, j} /\ log[k].wroteAt # 0) =>
                      /\ log[k].wroteAt < log[i].readAt
                      /\ log[k].wroteAt < log[j].readAt) =>
               /\ Includes(layouts[docFile], fieldTag(log[j]))
               /\ ~Includes(layouts[docFile], fieldTag(log[i]))
               /\ log[i].line = AddedLine
               /\ log[j].line = AddedLine

C24_Witness ==
    /\ Len(log) = 2
    /\ inflight = <<>>
    /\ log[1].pid = "first" /\ log[1].field = <<"Price", "__c">>
    /\ log[2].pid = "second" /\ log[2].field = <<"Rating", "__c">>
    /\ log[1].readAt = 1 /\ log[2].readAt = 2
    /\ log[1].wroteAt = 3 /\ log[2].wroteAt = 4
    /\ log[1].line = AddedLine /\ log[2].line = AddedLine
    /\ Includes(layouts[layoutFileName(ContactLayout)],
                LayoutItem("Edit", <<"Rating", "__c">>))
    /\ ~Includes(layouts[layoutFileName(ContactLayout)], <<"Price", "__c">>)

(* The positions of the <field> entries of a layout document. *)
FieldEntries(doc) == {i \in 1..Len(doc) : doc[i] = "<field>"}

(* The field API name of the entry at position i: its text without the      *)
(* blanks around it.                                                        *)
EntryName(doc, i) ==
    LET close == CHOOSE e \in (i + 1)..Len(doc) :
                    /\ doc[e] = "</field>"
                    /\ \A k \in (i + 1)..(e - 1) : doc[k] # "</field>"
        IsText(t) == t # Blank
    IN SelectSeq(SubSeq(doc, i + 1, close - 1), IsText)

(* C27: starting from layout documents that list no field twice, whatever   *)
(* addFieldToLayout calls two processes make and however their read and     *)
(* write steps interleave, no field API name is in more than one <field>    *)
(* entry of a layout document.                                              *)
C27_NoFieldListedTwice ==
    \A f \in DOMAIN layouts :
        \A i \in FieldEntries(layouts[f]), j \in FieldEntries(layouts[f]) :
            i # j => EntryName(layouts[f], i) # EntryName(layouts[f], j)

(* C25: an addTabToApp call on a missing application file changes nothing;  *)
(* a call for a tab that is already in the file leaves the file as it was;  *)
(* and after a call on a file that has its closing </CustomApplication>     *)
(* tag the <tabs> entry of the object is in the file exactly once, the      *)
(* entries of the other objects as many times as before.                    *)
C25_TabOnce ==
    [][(call'.op = "addTabToApp" /\ calls' = calls + 1) =>
          LET file == IF endsWith(call'.target, <<".app-meta.xml">>) THEN call'.target
                      ELSE call'.target \o <<".app-meta.xml">>
              entry(o) == <<"<tabs>">> \o Resolved(o) \o <<"</tabs>">>
              mine == <<"<tabs>">> \o call'.apiName \o <<"</tabs>">>
          IN /\ file \notin DOMAIN apps => apps' = apps
             /\ file \in DOMAIN apps =>
                   /\ DOMAIN apps' = DOMAIN apps
                   /\ \A other \in (DOMAIN apps) \ {file} : apps'[other] = apps[other]
                   /\ Includes(apps[file], mine) => apps' = apps
                   /\ Includes(apps[file], <<"</CustomApplication>">>) =>
                         /\ Occurrences(apps'[file], mine) = 1
                         /\ \A o \in TabObjects :
                               entry(o) # mine =>
                                  Occurrences(apps'[file], entry(o))
                                     = Occurrences(apps[file], entry(o))]_vars

OfferAmount == <<"Offer", "_", "Amount", "__c">>

TargetCloseDate == <<"Target", "_", "Close", "_", "Date", "__c">>

FavoriteContact == <<"Favorite", "__c", ".", "Contact", "__c">>

(* Is every tab entry of the application file on one line? *)
TabsOnOneLine(doc) ==
    \A i \in 1..(Len(doc) - 1) : doc[i] = "<tabs>" => doc[i + 1] # Newline

(* What the statements completed so far have left behind, whichever files   *)
(* were missing: a call on a missing file neither raises nor creates the    *)
(* file, and every statement after it has written what it writes.           *)
StatementsDone ==
    /\ call.status # "threw"
    /\ (call.op \in {"addFieldToLayout", "addRelatedListToLayout"} /\ ~call.existed) =>
          layoutFileName(call.target) \notin DOMAIN layouts
    /\ (call.op = "addTabToApp" /\ ~call.existed) => apps = <<>>
    /\ Done >= 1 => <<<<"Offer", "__c">>, <<"Offer", "__c">>>> \in DOMAIN objFiles
    /\ Done >= 2 =>
          \A f \in {OfferAmount, TargetCloseDate} :
              /\ <<<<"Offer", "__c">>, f>> \in DOMAIN fieldFiles
              /\ Includes(fieldFiles[<<<<"Offer", "__c">>, f>>],
                          <<"<required>", "true", "</required>">>)
    /\ Done >= 3 => <<"Offer", "__c">> \in DOMAIN tabFiles
    /\ Done >= 6 =>
          /\ layoutFileName(OfferLayout) \in DOMAIN layouts
          /\ Includes(layouts[layoutFileName(OfferLayout)],
                      LayoutItem("Required", <<"Name">>)
                      \o LayoutItem("Edit", OfferAmount)
                      \o LayoutItem("Edit", TargetCloseDate))
    /\ Done >= 7 =>
          /\ <<"Offer">> \in DOMAIN permFiles
          /\ Occurrences(permFiles[<<"Offer">>], <<"<fieldPermissions>">>) = 2
    /\ (Done >= 8 /\ apps # <<>> /\ TabsOnOneLine(apps[appFileName(SalesApp)])) =>
          Occurrences(apps[appFileName(SalesApp)],
                      <<"<tabs>", "Offer", "__c", "</tabs>">>) = 1
    /\ Done >= 9 => <<<<"Favorite", "__c">>, <<"Favorite", "__c">>>> \in DOMAIN objFiles
    /\ Done >= 10 =>
          <<<<"Favorite", "__c">>, <<"Contact", "__c">>>> \in DOMAIN fieldFiles
    /\ Done >= 11 => <<"Favorite", "__c">> \in DOMAIN tabFiles
    /\ Done >= 13 =>
          /\ layoutFileName(FavoriteLayout) \in DOMAIN layouts
          /\ Includes(layouts[layoutFileName(FavoriteLayout)],
                      LayoutItem("Edit", <<"Contact", "__c">>))
    /\ Done >= 14 =>
          /\ <<"Favorite">> \in DOMAIN permFiles
          /\ Occurrences(permFiles[<<"Favorite">>], <<"<fieldPermissions>">>) = 1
    /\ (Done >= 15 /\ apps # <<>> /\ TabsOnOneLine(apps[appFileName(SalesApp)])) =>
          Occurrences(apps[appFileName(SalesApp)],
                      <<"<tabs>", "Favorite", "__c", "</tabs>">>) = 1
    /\ \A n \in 16..ScriptLength :
          (Done >= n /\ layoutFileName(ScriptSteps[n].a) \in DOMAIN layouts) =>
              Occurrences(layouts[layoutFileName(ScriptSteps[n].a)],
                          <<"<relatedList>">> \o FavoriteContact \o <<"</relatedList>">>) = 1

(* C26: whichever Contact layouts and application file are missing, the     *)
(* script reaches and completes its last statement; no statement raises, a  *)
(* call on a missing file is skipped, and every other statement leaves      *)
(* what it leaves when nothing is missing.                                  *)
C26_ScriptCompletes ==
    /\ <>(/\ Done = ScriptLength
          /\ call.op = "addRelatedListToLayout"
          /\ call.target = ContactLayout
          /\ call.status = "returned")
    /\ []StatementsDone

C26_Witness ==
    /\ firstRun = NoRun
    /\ Done = ScriptLength
    /\ call.op = "addRelatedListToLayout"
    /\ ~call.existed
    /\ apps = <<>>
    /\ DOMAIN layouts = {layoutFileName(OfferLayout), layoutFileName(FavoriteLayout),
                         layoutFileName(<<"Contact", "-", "Contact", " %28Sales%29",
                                          " Layout">>)}
    /\ Includes(layouts[layoutFileName(<<"Contact", "-", "Contact", " %28Sales%29",
                                         " Layout">>)],
                relatedListXml(FavoriteContact))
    /\ <<"Favorite">> \in DOMAIN permFiles
    /\ <<"Favorite", "__c">> \in DOMAIN tabFiles

(* C28: when the execution block has been run a second time, every object, *)
(* field, tab, layout, permission-set and application file holds what it    *)
(* held when the first run ended, and in the second run every related-list  *)
(* and tab statement on a file that exists finds its entry and writes       *)
(* nothing.                                                                 *)
C28_SecondRunSameFiles ==
    (firstRun # NoRun /\ Done >= 1) =>
        /\ Done = ScriptLength => firstRun = <<Files>>
        /\ (call.op = "addRelatedListToLayout" /\ call.existed) =>
              /\ hasRelatedList(version, call.before, FavoriteContact)
              /\ layouts[layoutFileName(call.target)] = call.before
        /\ (call.op = "addTabToApp" /\ call.existed) =>
              /\ TabsOnOneLine(call.before) => call.ret = <<"already in app">>
              /\ apps[appFileName(call.target)] = call.before

C28_Witness ==
    /\ firstRun # NoRun
    /\ Done = ScriptLength
    /\ firstRun = <<Files>>
    /\ apps # <<>>
    /\ Occurrences(apps[appFileName(SalesApp)], tabTag(<<"Favorite", "__c">>)) = 1
    /\ \E n \in 16..ScriptLength :
          /\ layoutFileName(ScriptSteps[n].a) \in DOMAIN layouts
          /\ Includes(layouts[layoutFileName(ScriptSteps[n].a)],
                      relatedListXml(FavoriteContact))
    /\ Includes(layouts[layoutFileName(OfferLayout)],
                LayoutItem("Edit", OfferAmount) \o LayoutItem("Edit", TargetCloseDate))

(* C29: for every object name createPermissionSet resolves the name to what *)
(* getObjectDetails gives as apiName and as folderName; where createObject  *)
(* resolves names with getObjectDetails, createPermissionSet therefore      *)
(* looks for the fields folder createObject makes for that name and lists   *)
(* exactly the field files in it.                                           *)
C29_HelpersAgree ==
    call.op = "createPermissionSet" =>
        /\ call.apiName = getObjectDetails(call.target).apiName
        /\ call.apiName = getObjectDetails(call.target).folderName
        /\ version # CF1 =>
              LET folder == ObjectNames(version, call.target).folderName
              IN /\ call.folderName = folder
                 /\ call.existed = (folder \in fieldsDirs)
                 /\ permSeen[call.target]
                       = {k[2] \o FieldFileSuffix :
                             k \in {f \in DOMAIN fieldFiles : f[1] = folder}}

C29_Witness ==
    /\ version # CF1
    /\ call.op = "createPermissionSet"
    /\ call.target = <<"Account">>
    /\ call.existed
    /\ objectDirs = {<<"Account">>}
    /\ permSeen[<<"Account">>] = {<<"Price", "__c", ".field-meta.xml">>}
    /\ Occurrences(permFiles[<<"Account">>], <<"<fieldPermissions>">>) = 1

(* C30: createRecords changes the rows it was given: after the call every   *)
(* row has every required field, with null where the row did not have it,   *)
(* and, when the object is AutoNumber, no "Name" key; a call that follows   *)
(* with the same rows, object name and options prints no warning, leaves    *)
(* the rows as they are and writes the same records.                        *)
C30_RowsChangedInPlace ==
    [][call'.op = "createRecords" =>
         LET required == findFields(version, call'.target)
             autoNumber == /\ HasNameFieldOptions(version)
                           /\ call'.opts.given
                           /\ call'.opts.type = "AutoNumber"
         IN /\ Len(rows') = Len(call'.rowsIn)
            /\ \A i \in 1..Len(rows') :
                  /\ required \subseteq DOMAIN rows'[i]
                  /\ \A f \in required \ DOMAIN call'.rowsIn[i] : rows'[i][f] = Null
                  /\ \A k \in DOMAIN call'.rowsIn[i] :
                        (k # NameKey \/ ~autoNumber) =>
                            /\ k \in DOMAIN rows'[i]
                            /\ rows'[i][k] = call'.rowsIn[i][k]
                  /\ autoNumber => NameKey \notin DOMAIN rows'[i]
            /\ (/\ call.op = "createRecords"
                /\ call'.target = call.target
                /\ call'.opts = call.opts
                /\ call'.rowsIn = rows) =>
                  /\ call'.warned = {}
                  /\ rows' = rows
                  /\ dataFiles'[call'.target] = dataFiles[call.target]
    ]_vars

C30_Witness ==
    /\ call.op = "createRecords"
    /\ call.opts = ValidAutoNumber
    /\ calls = 4
    /\ call.warned = {}
    /\ call.rowsIn = rows
    /\ Len(rows) = 2
    /\ NameKey \notin DOMAIN rows[1]
    /\ DOMAIN rows[1] = {<<"Mandatory">> \o Suffix}
    /\ rows[1][<<"Mandatory">> \o Suffix] = Null
    /\ DOMAIN rows[2] = {<<"Mandatory">> \o Suffix, <<"Price">> \o Suffix}
    /\ rows[2][<<"Price">> \o Suffix] = Scalar(<<"x">>)
    /\ Len(dataFiles[call.target]) = 2
====
